---- MODULE Spec2Model ----
(***************************************************************************)
(* State-machine model of the privacy sidecar: the RLN rate limiter, the   *)
(* friend relay, the subnet juggler and their run loops.                   *)
(***************************************************************************)
EXTENDS Integers, Sequences, FiniteSets, TLC

(***************************************************************************)
(* Bounds of the model.                                                    *)
(***************************************************************************)
\* Largest rate_limit_per_epoch a RateLimiter is constructed with.
MaxLimit == 2

\* Number of distinct nullifier values the proof provider can return.
NumNullifiers == 2

\* Largest attestation subnet id of the model (SubnetId::MAX_SUBNET_ID, 63 in
\* the source, scaled down; the subnet count is MAX_SUBNET_ID + 1).
MAX_SUBNET_ID == 2

\* Largest config.extra_subnets_per_epoch a juggler is constructed with.
MaxExtra == 2

\* Longest subnet list of an AddSubnets / RemoveSubnets command.
MaxCmdLen == 1

\* Largest epoch the networking provider reports.
MaxEpoch == 1

\* Number of distinct friend peer ids (config.friend_nodes and AddFriend).
NumFriends == 2

\* Number of distinct message ids seen by a MessageQueue.
NumMessageIds == 2

\* Largest max_size a MessageQueue is created with (1000 in FriendRelay::new).
MaxQueueSize == 3

\* Clock ticks in the five minutes has_seen keeps an entry
\* (Duration::from_secs(300), scaled down).
SEEN_TTL == 2

\* Last reading of the clock.
MaxTime == 4

\* Largest u8 a caller passes to SubnetId::new (u8::MAX, scaled down).
MaxId == 5

\* Largest u64 (u64::MAX, scaled down): EpochInfo fields range over 0..MaxWord
\* and a wrapping product is taken modulo MaxWord + 1.
MaxWord == 7

\* Slots per epoch the provider's EpochInfo reports (32 on mainnet, scaled down);
\* a slot lasts one unit of the clock.
SlotsPerEpoch == 3

\* Most handlers in progress at once the model follows.
MaxInflight == 2

(***************************************************************************)
(* Program constants.                                                      *)
(***************************************************************************)
\* check_and_update keeps the buckets e >= epoch.saturating_sub(3).
KEEP_EPOCHS == 3

\* validate_config rejects extra_subnets_per_epoch > 32.
MAX_EXTRA_SUBNETS == 32

\* validate_config rejects friend_nodes.len() < 3.
MIN_FRIEND_NODES == 3

\* StealthConfig::default: extra_subnets_per_epoch: 8.
DEFAULT_EXTRA_SUBNETS == 8

Nullifiers == 1..NumNullifiers

\* Epochs the RLN provider reports: the start, its successor, and the first
\* epoch whose arrival evicts the bucket of epoch 0.
RlnEpochs == {0, 1, KEEP_EPOCHS + 1}

\* Epochs the RLN provider reports to the relay: the start and its successor.
RelayEpochs == {0, 1}

VARIABLES
    rate_limiter,     \* RateLimiter {rate_limit_per_epoch, current_epoch, message_count, nullifiers_seen}
    rl_watch,         \* history: the <<epoch, nullifier>> pair the history below is kept for (any pair)
    rl_watch_count,   \* history: number of calls with the watched epoch that returned Ok
    rl_watch_status,  \* history: "never" accepted, "live" (accepted, bucket not evicted since), "evicted"
    rl_last,          \* history: the last check_and_update call and its result
    extra_subnets_per_epoch, \* SubnetJuggler.config.extra_subnets_per_epoch
    state,            \* SubnetJuggler.state: SubnetState
    j_pc,             \* position of SubnetJuggler::run
    provider_subscribed, \* the subnets the NetworkingProvider is subscribed to
    shutdown,         \* value of the shutdown watch channel
    j_last,           \* history: the last step of the juggler task
    j_calls,          \* history: provider calls of the last step, <<call, subnet, succeeded>>
    j_events,         \* history: events the last step sent on event_tx, in order
    j_cleanups,       \* history: number of times cleanup ran
    friends,          \* FriendRelay.friends, as the set of peer ids
    r_pc,             \* position of FriendRelay::run
    r_last,           \* history: the last step of the relay task
    r_pushes,         \* history: light_push calls of the last step, <<friend, succeeded>>
    r_events,         \* history: events the last step sent on event_tx, in order
    s_pc,             \* position of StealthSidecar::run
    s_last,           \* history: the last step of the supervisor task
    s_sent,           \* history: commands the last step sent to the relay, in order
    s_calls,          \* history: gossip-engine calls of the last step, in order
    message_queue,    \* MessageQueue {max_size, messages: <<message_id, timestamp>>, oldest first}
    now,              \* reading of the clock (Instant::now(), Utc::now())
    mq_last,          \* history: the last call on the MessageQueue and its result
    mq_live,          \* history: entries added, not popped by the size bound, at most SEEN_TTL old
    r_messages,       \* history: the ProvenMessages the last relay step handed to light_push
    rx_arrived,       \* history: per message id, ProvenMessages friends delivered to this node
    rx_received,      \* history: per message id, MessageReceived events the relay sent
    rl_run,           \* history: the check_and_update calls of the relay since RateLimiter::new
    j_pair,           \* history: the AddSubnets([s]) / RemoveSubnets([s]) handled back to back
    m_pc,             \* position of run_sidecar (src/main.rs)
    m_args,           \* the command line: Args {stealth}
    m_config,         \* the StealthConfig run_sidecar loaded
    stealth_enabled,  \* StealthSidecar.stealth_enabled of src/main.rs
    m_handles,        \* whether subnet_juggler_handle and friend_relay_handle are Some
    m_started,        \* history: the tasks enable_stealth spawned so far
    calc,             \* the last call of a pure function of the common crate and its result
    s_gossip,         \* history: the gossip message the supervisor handled last
    validator_subnets, \* what the provider's get_validator_subnets reports now
    j_timer,          \* the juggler's epoch_timer, with the history of its last tick
    j_inflight,       \* the juggler's handlers that were started and have not returned
    s_event,          \* history: the subnet event the supervisor handled last
    m_tasks           \* the tasks enable_stealth spawned, in order, each with its position

\* The provider's side of the juggler and the juggler's timer and handlers in flight.
lastVars == <<s_event, m_tasks>>

lateVars == <<validator_subnets, j_timer, j_inflight, lastVars>>

limiterVars == <<rate_limiter, rl_watch, rl_watch_count, rl_watch_status, rl_last>>

limiterHistory == <<rl_watch, rl_watch_count, rl_watch_status, rl_last>>

relayVars == <<friends, r_pc, r_last, r_pushes, r_events>>

supervisorVars == <<s_pc, s_last, s_sent, s_calls>>

jugglerVars == <<extra_subnets_per_epoch, state, j_pc, provider_subscribed,
                 j_last, j_calls, j_events, j_cleanups>>

vars == <<rate_limiter, rl_watch, rl_watch_count, rl_watch_status, rl_last,
          extra_subnets_per_epoch, state, j_pc, provider_subscribed, shutdown,
          j_last, j_calls, j_events, j_cleanups,
          friends, r_pc, r_last, r_pushes, r_events,
          s_pc, s_last, s_sent, s_calls,
          message_queue, now, mq_last, mq_live,
          r_messages, rx_arrived, rx_received, rl_run, j_pair,
          m_pc, m_args, m_config, stealth_enabled, m_handles, m_started, calc, s_gossip,
          lateVars>>

queueVars == <<message_queue, now, mq_last, mq_live>>

receiveVars == <<rx_arrived, rx_received>>

\* What the specifications of one component leave alone besides the other components.
restVars == <<queueVars, receiveVars, r_messages, rl_run, j_pair,
              m_pc, m_args, m_config, stealth_enabled, m_handles, m_started, calc, s_gossip,
          lateVars>>

mainVars == <<m_pc, m_args, m_config, stealth_enabled, m_handles, m_started>>

\* The binary's entry point and the pure functions, which no task's step touches.
auxVars == <<mainVars, calc, s_gossip, lateVars>>

(***************************************************************************)
(* RateLimiter                                                             *)
(***************************************************************************)
\* u64::saturating_sub
saturating_sub(a, b) == IF a >= b THEN a - b ELSE 0

\* Vec::contains
Contains(s, x) == \E i \in 1..Len(s) : s[i] = x

\* HashMap::retain(|&e, _| e >= epoch.saturating_sub(3))
Retain(m, epoch) ==
    [e \in {x \in DOMAIN m : x >= saturating_sub(epoch, KEEP_EPOCHS)} |-> m[e]]

\* HashMap::entry(epoch).or_insert_with(Vec::new)
OrInsert(m, epoch) ==
    IF epoch \in DOMAIN m THEN m
    ELSE [e \in DOMAIN m \cup {epoch} |-> IF e = epoch THEN <<>> ELSE m[e]]

\* RateLimiter::new
RateLimiterNew(rate_limit_per_epoch) ==
    [rate_limit_per_epoch |-> rate_limit_per_epoch,
     current_epoch        |-> 0,
     message_count        |-> 0,
     nullifiers_seen      |-> <<>>]

\* The epoch update at the head of check_and_update.
AdvanceEpoch(rl, epoch) ==
    IF epoch > rl.current_epoch
    THEN [rl EXCEPT !.current_epoch = epoch,
                    !.message_count = 0,
                    !.nullifiers_seen = Retain(@, epoch)]
    ELSE rl

\* Mutant: the nullifier-reuse check is dropped.
NullifierReused_Never(bucket, nullifier) == FALSE

\* epoch_nullifiers.contains(&nullifier)
NullifierReused(bucket, nullifier) == Contains(bucket, nullifier)

\* Mutant: the counter and the bucket are updated before the checks, so a
\* rejected call leaves its nullifier and its count behind.
check_and_update_UpdateFirst(rl, epoch, nullifier) ==
    LET rl1 == AdvanceEpoch(rl, epoch)
        rl2 == [rl1 EXCEPT !.nullifiers_seen = OrInsert(@, epoch)]
        rl3 == [rl2 EXCEPT !.message_count = @ + 1,
                           !.nullifiers_seen[epoch] = Append(@, nullifier)]
    IN  IF NullifierReused(rl2.nullifiers_seen[epoch], nullifier)
        THEN [limiter |-> rl3, result |-> "ErrNullifier"]
        ELSE IF rl2.message_count >= rl2.rate_limit_per_epoch
        THEN [limiter |-> rl3, result |-> "ErrRateLimit"]
        ELSE [limiter |-> rl3, result |-> "Ok"]

\* RateLimiter::check_and_update: the limiter after the call and its result.
check_and_update(rl, epoch, nullifier) ==
    LET rl1 == AdvanceEpoch(rl, epoch)
        rl2 == [rl1 EXCEPT !.nullifiers_seen = OrInsert(@, epoch)]
    IN  IF NullifierReused(rl2.nullifiers_seen[epoch], nullifier)
        THEN [limiter |-> rl2, result |-> "ErrNullifier"]
        ELSE IF rl2.message_count >= rl2.rate_limit_per_epoch
        THEN [limiter |-> rl2, result |-> "ErrRateLimit"]
        ELSE [limiter |->
                [rl2 EXCEPT !.message_count = @ + 1,
                            !.nullifiers_seen[epoch] = Append(@, nullifier)],
              result |-> "Ok"]

\* Mutant: the rejected attempt is counted in the reported attempts.
get_stats_Attempt(rl) == <<rl.current_epoch, rl.message_count + 1, rl.rate_limit_per_epoch>>

\* RateLimiter::get_stats
get_stats(rl) == <<rl.current_epoch, rl.message_count, rl.rate_limit_per_epoch>>

NoCall == [epoch |-> 0, nullifier |-> 0, result |-> "None", watched |-> "never"]

LimiterInit ==
    /\ \E l \in 0..MaxLimit : rate_limiter = RateLimiterNew(l)
    /\ rl_watch \in RlnEpochs \X Nullifiers
    /\ rl_watch_count = 0
    /\ rl_watch_status = "never"
    /\ rl_last = NoCall

\* The history of one check_and_update call on limiter rl: rl_last.watched is the
\* status of the watched pair when the call repeats it, "other" on other calls.
LimiterHistory(rl, epoch, nullifier, result) ==
    LET status == IF /\ rl_watch_status = "live"
                     /\ epoch > rl.current_epoch
                     /\ rl_watch[1] < saturating_sub(epoch, KEEP_EPOCHS)
                  THEN "evicted"
                  ELSE rl_watch_status
    IN  /\ rl_watch_count' =
              IF result = "Ok" /\ epoch = rl_watch[1]
              THEN rl_watch_count + 1
              ELSE rl_watch_count
        /\ rl_watch_status' =
              IF result = "Ok" /\ <<epoch, nullifier>> = rl_watch THEN "live" ELSE status
        /\ rl_last' = [epoch |-> epoch, nullifier |-> nullifier, result |-> result,
                       watched |-> IF <<epoch, nullifier>> = rl_watch
                                   THEN status ELSE "other"]
        /\ UNCHANGED rl_watch

\* One call of check_and_update on the limiter.
CheckAndUpdate(epoch, nullifier) ==
    LET r == check_and_update(rate_limiter, epoch, nullifier)
    IN  /\ rate_limiter' = r.limiter
        /\ LimiterHistory(rate_limiter, epoch, nullifier, r.result)

(***************************************************************************)
(* SubnetJuggler                                                           *)
(***************************************************************************)
\* SubnetId::all_subnets, as a set
Subnets == 0..MAX_SUBNET_ID

\* Epochs reported by NetworkingProvider::get_current_epoch_info.
Epochs == 0..MaxEpoch

\* Answers of NetworkingProvider::get_validator_subnets, collected into a set.
MandatoryChoices == {0..(m - 1) : m \in 1..MAX_SUBNET_ID}

\* The Vec<SubnetId> arguments of AddSubnets and RemoveSubnets.
SubnetLists == UNION {[1..n -> Subnets] : n \in 0..MaxCmdLen}

SeqToSet(s) == {s[i] : i \in 1..Len(s)}

Min(a, b) == IF a <= b THEN a ELSE b

\* The members of the HashSet S as a Vec, listed in ascending order (the
\* iteration order of a HashSet carries no meaning).
RECURSIVE ToVec(_)
ToVec(S) ==
    IF S = {} THEN <<>>
    ELSE LET m == CHOOSE x \in S : \A y \in S : x <= y
         IN  <<m>> \o ToVec(S \ {m})

\* How the provider calls of a loop over a HashSet end: no call fails, or the
\* call for `subnet` fails after the calls for the subnets in `done` succeeded
\* (the loop visits the set in any order and returns at the first failure).
NoFailure == [call |-> "none", subnet |-> 0, done |-> {}]
FailureIn(call, S) ==
    UNION {{[call |-> call, subnet |-> s, done |-> D] : D \in SUBSET (S \ {s})} : s \in S}

\* Mutant: the mandatory subnets are not taken out of the candidates.
CandidateSubnets_All(st) == Subnets

\* all_subnets.retain(|s| !self.state.mandatory_subnets.contains(s))
CandidateSubnets(st) == Subnets \ st.mandatory_subnets

\* all_subnets.shuffle(rng) then .take(extra_subnets_per_epoch): every set of
\* candidates of that size.
Selections(st, k) ==
    LET avail == CandidateSubnets(st)
        n     == Min(k, Cardinality(avail))
    IN  {S \in SUBSET avail : Cardinality(S) = n}

\* SubnetEvent
SubnetsJoined(list) == [type |-> "SubnetsJoined", subnets |-> list]
SubnetsLeft(list) == [type |-> "SubnetsLeft", subnets |-> list]
EpochReshuffle(epoch, list) == [type |-> "EpochReshuffle", epoch |-> epoch, subnets |-> list]
ErrorEvent == [type |-> "Error"]

\* SubnetJuggler::new: the SubnetState of a new juggler.
SubnetStateNew ==
    [current_epoch      |-> 0,
     subscribed_subnets |-> {},
     mandatory_subnets  |-> {},
     extra_subnets      |-> {}]

\* Outcome of a handler: the state and provider after it, the provider calls it
\* made, the events it sent and whether it returned Ok.
Outcome(st, prov, calls, events, ok) ==
    [state |-> st, provider |-> prov, calls |-> calls, events |-> events, ok |-> ok]

\* SubnetJuggler::reshuffle_extra_subnets. new is the shuffled selection, f how
\* the provider calls end; a failed call leaves the provider as it was and
\* the function returns through `?`.
reshuffle_extra_subnets(st, prov, new, f) ==
    LET old         == st.extra_subnets
        unsubFailed == f.call = "unsubscribe"
        subFailed   == f.call = "subscribe"
        removed     == IF unsubFailed THEN f.done ELSE old
        added       == IF unsubFailed THEN {} ELSE IF subFailed THEN f.done ELSE new
        ok          == ~unsubFailed /\ ~subFailed
        calls       == {<<"unsubscribe", s, TRUE>> : s \in removed}
                       \cup (IF unsubFailed THEN {<<"unsubscribe", f.subnet, FALSE>>} ELSE {})
                       \cup {<<"subscribe", s, TRUE>> : s \in added}
                       \cup (IF subFailed THEN {<<"subscribe", f.subnet, FALSE>>} ELSE {})
        left        == IF ~unsubFailed /\ old # {} THEN <<SubnetsLeft(ToVec(old))>> ELSE <<>>
        joined      == IF ok /\ new # {} THEN <<SubnetsJoined(ToVec(new))>> ELSE <<>>
    IN  Outcome([st EXCEPT !.subscribed_subnets = (@ \ removed) \cup added,
                           !.extra_subnets = IF ok THEN new ELSE @],
                (prov \ removed) \cup added,
                calls, left \o joined, ok)

\* Mutant: every subnet of the list is subscribed again.
AddWanted_Always(st, subnet) == TRUE

\* Mutant: AddSubnets subscribes every listed subnet that is not yet an extra.
AddWanted_NotExtra(st, subnet) == subnet \notin st.extra_subnets

\* AddSubnets: !self.state.subscribed_subnets.contains(subnet)
AddWanted(st, subnet) == subnet \notin st.subscribed_subnets

\* Mutant: RemoveSubnets unsubscribes every listed subnet that is subscribed.
RemoveWanted_Subscribed(st, subnet) == subnet \in st.subscribed_subnets

\* RemoveSubnets: self.state.extra_subnets.contains(subnet)
RemoveWanted(st, subnet) == subnet \in st.extra_subnets

\* The loop of AddSubnets over the rest of the list; n counts the provider
\* calls made so far.
RECURSIVE AddLoop(_, _, _, _, _, _)
AddLoop(st, prov, calls, n, list, fail) ==
    IF list = <<>> THEN Outcome(st, prov, calls, <<>>, TRUE)
    ELSE LET subnet == Head(list)
         IN  IF ~AddWanted(st, subnet)
             THEN AddLoop(st, prov, calls, n, Tail(list), fail)
             ELSE IF n + 1 = fail
             THEN Outcome(st, prov, calls \cup {<<"subscribe", subnet, FALSE>>}, <<>>, FALSE)
             ELSE AddLoop([st EXCEPT !.subscribed_subnets = @ \cup {subnet},
                                     !.extra_subnets = @ \cup {subnet}],
                          prov \cup {subnet},
                          calls \cup {<<"subscribe", subnet, TRUE>>},
                          n + 1, Tail(list), fail)

\* The loop of RemoveSubnets over the rest of the list.
RECURSIVE RemoveLoop(_, _, _, _, _, _)
RemoveLoop(st, prov, calls, n, list, fail) ==
    IF list = <<>> THEN Outcome(st, prov, calls, <<>>, TRUE)
    ELSE LET subnet == Head(list)
         IN  IF ~RemoveWanted(st, subnet)
             THEN RemoveLoop(st, prov, calls, n, Tail(list), fail)
             ELSE IF n + 1 = fail
             THEN Outcome(st, prov, calls \cup {<<"unsubscribe", subnet, FALSE>>}, <<>>, FALSE)
             ELSE RemoveLoop([st EXCEPT !.subscribed_subnets = @ \ {subnet},
                                        !.extra_subnets = @ \ {subnet}],
                             prov \ {subnet},
                             calls \cup {<<"unsubscribe", subnet, TRUE>>},
                             n + 1, Tail(list), fail)

\* SubnetCommand
ForceReshuffleCmd == [type |-> "ForceReshuffle", subnets |-> <<>>]
AddSubnetsCmd(list) == [type |-> "AddSubnets", subnets |-> list]
RemoveSubnetsCmd(list) == [type |-> "RemoveSubnets", subnets |-> list]
GetStatusCmd == [type |-> "GetStatus", subnets |-> <<>>]
StopCmd == [type |-> "Stop", subnets |-> <<>>]

\* SubnetJuggler::handle_command. For AddSubnets and RemoveSubnets fail is the
\* number of the provider call that fails (0: none).
handle_command(st, prov, command, new, f, fail) ==
    CASE command.type = "ForceReshuffle" ->
            reshuffle_extra_subnets(st, prov, new, f)
      [] command.type = "AddSubnets" ->
            LET r == AddLoop(st, prov, {}, 0, command.subnets, fail)
            IN  IF r.ok THEN [r EXCEPT !.events = <<SubnetsJoined(command.subnets)>>] ELSE r
      [] command.type = "RemoveSubnets" ->
            LET r == RemoveLoop(st, prov, {}, 0, command.subnets, fail)
            IN  IF r.ok THEN [r EXCEPT !.events = <<SubnetsLeft(command.subnets)>>] ELSE r
      [] command.type = "GetStatus" -> Outcome(st, prov, {}, <<>>, TRUE)
      [] command.type = "Stop" -> Outcome(st, prov, {}, <<>>, FALSE)

\* SubnetJuggler::handle_epoch_boundary, given the provider's answer
\* (epochOk: get_current_epoch_info succeeded, with epoch).
handle_epoch_boundary(st, prov, epochOk, epoch, new, f) ==
    IF ~epochOk THEN Outcome(st, prov, {}, <<>>, FALSE)
    ELSE LET st1 == [st EXCEPT !.current_epoch = epoch]
             r   == reshuffle_extra_subnets(st1, prov, new, f)
         IN  IF r.ok
             THEN [r EXCEPT !.events = @ \o <<EpochReshuffle(epoch, ToVec(new))>>]
             ELSE r

\* A run loop that drops a handler's Err without an event.
WithErrorEvent_Silent(r) == r

\* The run loop's `if let Err(e) = ... { event_tx.send(SubnetEvent::Error(..)) }`
WithErrorEvent(r) == IF r.ok THEN r ELSE [r EXCEPT !.events = @ \o <<ErrorEvent>>]

\* SubnetJuggler::initialize: mandatory is the provider's answer; f with call
\* "mandatory" is a failure in the loop subscribing the mandatory subnets,
\* any other f belongs to the first reshuffle.
initialize(st, prov, epochOk, epoch, mandatoryOk, mandatory, new, f) ==
    IF ~epochOk THEN Outcome(st, prov, {}, <<>>, FALSE)
    ELSE LET st1 == [st EXCEPT !.current_epoch = epoch]
         IN  IF ~mandatoryOk THEN Outcome(st1, prov, {}, <<>>, FALSE)
             ELSE LET st2       == [st1 EXCEPT !.mandatory_subnets = mandatory]
                      manFailed == f.call = "mandatory"
                      subbed    == IF manFailed THEN f.done ELSE mandatory
                      calls     == {<<"subscribe", s, TRUE>> : s \in subbed}
                                   \cup (IF manFailed
                                         THEN {<<"subscribe", f.subnet, FALSE>>} ELSE {})
                      st3       == [st2 EXCEPT !.subscribed_subnets = @ \cup subbed]
                  IN  IF manFailed
                      THEN Outcome(st3, prov \cup subbed, calls, <<>>, FALSE)
                      ELSE LET r == reshuffle_extra_subnets(st3, prov \cup subbed, new, f)
                           IN  [r EXCEPT !.calls = @ \cup calls]

\* SubnetJuggler::cleanup: unsubscribe every extra; failing is the set of
\* subnets whose unsubscribe call fails (logged, not returned).
cleanup(st, prov, failing) ==
    Outcome(st, prov \ (st.extra_subnets \ failing),
            {<<"unsubscribe", s, s \notin failing>> : s \in st.extra_subnets},
            <<>>, TRUE)

Step(op, ok) == [op |-> op, ok |-> ok]

\* No juggler is constructed.
JugglerIdle ==
    /\ extra_subnets_per_epoch = 0
    /\ state = SubnetStateNew
    /\ j_pc = "idle"
    /\ provider_subscribed = {}
    /\ j_last = Step("None", TRUE)
    /\ j_calls = {}
    /\ j_events = <<>>
    /\ j_cleanups = 0

\* SubnetJuggler::new with a configuration and a fresh provider.
JugglerInit ==
    /\ extra_subnets_per_epoch \in 0..MaxExtra
    /\ state = SubnetStateNew
    /\ j_pc = "created"
    /\ provider_subscribed = {}
    /\ j_last = Step("None", TRUE)
    /\ j_calls = {}
    /\ j_events = <<>>
    /\ j_cleanups = 0

\* The juggler task takes the outcome r of a handler.
JugglerTakes(r, op) ==
    /\ state' = r.state
    /\ provider_subscribed' = r.provider
    /\ j_calls' = r.calls
    /\ j_events' = r.events
    /\ j_last' = Step(op, r.ok)

\* run: self.initialize().await? -- an error ends run before the loop.
JugglerInitialize(epochOk, epoch, mandatoryOk, mandatory, new, f) ==
    /\ j_pc = "created"
    /\ LET r == initialize(state, provider_subscribed, epochOk, epoch, mandatoryOk,
                           mandatory, new, f)
       IN  /\ JugglerTakes(r, "Initialize")
           /\ j_pc' = IF r.ok THEN "running" ELSE "failed"
    /\ UNCHANGED <<extra_subnets_per_epoch, j_cleanups, shutdown>>

\* run: the epoch_timer.tick() branch of the select loop.
JugglerEpochTick(epochOk, epoch, new, f) ==
    /\ j_pc = "running"
    /\ JugglerTakes(WithErrorEvent(handle_epoch_boundary(state, provider_subscribed,
                                                         epochOk, epoch, new, f)),
                    "EpochTick")
    /\ UNCHANGED <<extra_subnets_per_epoch, j_pc, j_cleanups, shutdown>>

\* run: the command_rx.recv() branch of the select loop.
JugglerCommand(command, new, f, fail) ==
    /\ j_pc = "running"
    /\ JugglerTakes(WithErrorEvent(handle_command(state, provider_subscribed, command,
                                                  new, f, fail)),
                    command.type)
    /\ UNCHANGED <<extra_subnets_per_epoch, j_pc, j_cleanups, shutdown>>

\* Mutant: the value of the watch is never seen as true.
ShutdownObserved_Never(flag) == FALSE

\* The shutdown branch of a select loop: changed() resolved and
\* `if *self.shutdown_rx.borrow()` holds.
ShutdownObserved(flag) == flag

\* run: the shutdown_rx.changed() branch, taken with the value true: break.
JugglerShutdown ==
    /\ j_pc = "running"
    /\ ShutdownObserved(shutdown)
    /\ j_pc' = "cleanup"
    /\ j_last' = Step("Shutdown", TRUE)
    /\ j_calls' = {}
    /\ j_events' = <<>>
    /\ UNCHANGED <<extra_subnets_per_epoch, state, provider_subscribed, j_cleanups, shutdown>>

\* run: self.cleanup().await? after the loop, then Ok(()).
JugglerCleanup(failing) ==
    /\ j_pc = "cleanup"
    /\ JugglerTakes(cleanup(state, provider_subscribed, failing), "Cleanup")
    /\ j_pc' = "stopped"
    /\ j_cleanups' = j_cleanups + 1
    /\ UNCHANGED <<extra_subnets_per_epoch, shutdown>>

(***************************************************************************)
(* FriendRelay                                                             *)
(***************************************************************************)
\* Peer ids of friend nodes.
FriendIds == 1..NumFriends

\* RelayEvent
MessageRelayed(k) == [type |-> "MessageRelayed", friends_count |-> k]
RateLimitExceeded(stats) ==
    [type |-> "RateLimitExceeded", epoch |-> stats[1], attempts |-> stats[2],
     limit |-> stats[3]]
MessageReceived(message_id, from_friend) ==
    [type |-> "MessageReceived", message_id |-> message_id, from_friend |-> from_friend]
FriendConnected(id) == [type |-> "FriendConnected", peer_id |-> id]
FriendDisconnected(id) == [type |-> "FriendDisconnected", peer_id |-> id]
RelayError == [type |-> "Error"]

\* RelayCommand
RelayAttestationCmd == [type |-> "RelayAttestation", arg |-> 0]
AddFriendCmd(id) == [type |-> "AddFriend", arg |-> id]
RemoveFriendCmd(id) == [type |-> "RemoveFriend", arg |-> id]
GetStatsCmd == [type |-> "GetStats", arg |-> 0]
UpdateRlnCmd(rate_limit) == [type |-> "UpdateRln", arg |-> rate_limit]
RelayStopCmd == [type |-> "Stop", arg |-> 0]

\* Outcome of a relay handler: the limiter and friends after it, the result of
\* the check_and_update call it made ("None": not made), its light_push calls,
\* the events it sent and whether it returned Ok.
RelayOutcome(rl, fr, limiter, pushes, events, ok) ==
    [limiter_state |-> rl, friends |-> fr, limiter |-> limiter, pushes |-> pushes,
     events |-> events, ok |-> ok]

\* Mutant: the fanout fails unless every friend received the message.
FanoutFailed_AnyMiss(successful_relays, friends_count) ==
    successful_relays < friends_count

\* if successful_relays == 0 { return Err(..) }
FanoutFailed(successful_relays, friends_count) == successful_relays = 0

\* Mutant: only an exhausted counter stops a relay, a reused nullifier does not.
LimiterRejects_RateOnly(result) == result = "ErrRateLimit"

\* if let Err(e) = limiter.check_and_update(rln_epoch, rln_proof.nullifier)
LimiterRejects(result) == result # "Ok"

\* FriendRelay::relay_attestation, given the provider's answers: get_rln_epoch
\* (epochOk, rln_epoch), generate_rln_proof (proofOk, nullifier) and the set of
\* friends whose light_push succeeds.
relay_attestation(rl, fr, epochOk, rln_epoch, proofOk, nullifier, delivered) ==
    IF ~epochOk \/ ~proofOk THEN RelayOutcome(rl, fr, "None", {}, <<>>, FALSE)
    ELSE LET c == check_and_update(rl, rln_epoch, nullifier)
         IN  IF LimiterRejects(c.result)
             THEN RelayOutcome(c.limiter, fr, c.result, {},
                               <<RateLimitExceeded(get_stats(c.limiter))>>, FALSE)
             ELSE LET pushes            == {<<f, f \in delivered>> : f \in fr}
                      friends_count     == Cardinality(fr)
                      successful_relays == Cardinality(fr \cap delivered)
                  IN  IF FanoutFailed(successful_relays, friends_count)
                      THEN RelayOutcome(c.limiter, fr, c.result, pushes, <<>>, FALSE)
                      ELSE RelayOutcome(c.limiter, fr, c.result, pushes,
                                        <<MessageRelayed(successful_relays)>>, TRUE)

\* FriendRelay::handle_command
relay_handle_command(rl, fr, command, epochOk, rln_epoch, proofOk, nullifier, delivered) ==
    CASE command.type = "RelayAttestation" ->
            relay_attestation(rl, fr, epochOk, rln_epoch, proofOk, nullifier, delivered)
      [] command.type = "AddFriend" ->
            RelayOutcome(rl, fr \cup {command.arg}, "None", {},
                         <<FriendConnected(command.arg)>>, TRUE)
      [] command.type = "RemoveFriend" ->
            RelayOutcome(rl, fr \ {command.arg}, "None", {},
                         <<FriendDisconnected(command.arg)>>, TRUE)
      [] command.type = "GetStats" -> RelayOutcome(rl, fr, "None", {}, <<>>, TRUE)
      [] command.type = "UpdateRln" ->
            RelayOutcome(RateLimiterNew(command.arg), fr, "None", {}, <<>>, TRUE)
      [] command.type = "Stop" -> RelayOutcome(rl, fr, "None", {}, <<>>, FALSE)

\* Mutant: the run loop drops the error of a handler.
RelayWithErrorEvent_Silent(r) == r

\* The run loop's `if let Err(e) = ... { event_tx.send(RelayEvent::Error(..)) }`
RelayWithErrorEvent(r) == IF r.ok THEN r ELSE [r EXCEPT !.events = @ \o <<RelayError>>]

RelayStep(op, ok, limiter) == [op |-> op, ok |-> ok, limiter |-> limiter]

\* No relay is constructed.
RelayIdle ==
    /\ friends = {}
    /\ r_pc = "idle"
    /\ r_last = RelayStep("None", TRUE, "None")
    /\ r_pushes = {}
    /\ r_events = <<>>

\* FriendRelay::new with a configuration, entering run.
RelayInit ==
    /\ friends \in SUBSET FriendIds
    /\ \E l \in 0..MaxLimit : rate_limiter = RateLimiterNew(l)
    /\ r_pc = "running"
    /\ r_last = RelayStep("None", TRUE, "None")
    /\ r_pushes = {}
    /\ r_events = <<>>

\* run: the command_rx.recv() branch of the select loop.
RelayCommand(command, epochOk, rln_epoch, proofOk, nullifier, delivered) ==
    /\ r_pc = "running"
    /\ LET r == RelayWithErrorEvent(
                    relay_handle_command(rate_limiter, friends, command, epochOk,
                                         rln_epoch, proofOk, nullifier, delivered))
       IN  /\ rate_limiter' = r.limiter_state
           /\ friends' = r.friends
           /\ r_last' = RelayStep(command.type, r.ok, r.limiter)
           /\ r_pushes' = r.pushes
           /\ r_events' = r.events
    /\ UNCHANGED <<r_pc, shutdown>>

\* run: the stats_timer.tick() branch; update_stats only reads the statistics.
RelayStatsTick ==
    /\ r_pc = "running"
    /\ r_last' = RelayStep("StatsTick", TRUE, "None")
    /\ r_pushes' = {}
    /\ r_events' = <<>>
    /\ UNCHANGED <<rate_limiter, friends, r_pc, shutdown>>

\* run: the shutdown_rx.changed() branch, taken with the value true: break, Ok(()).
RelayShutdown ==
    /\ r_pc = "running"
    /\ ShutdownObserved(shutdown)
    /\ r_pc' = "stopped"
    /\ r_last' = RelayStep("Shutdown", TRUE, "None")
    /\ r_pushes' = {}
    /\ r_events' = <<>>
    /\ UNCHANGED <<rate_limiter, friends, shutdown>>

(***************************************************************************)
(* StealthSidecar (the supervisor)                                         *)
(***************************************************************************)
\* GossipMessage kinds
GossipKinds == {"Attestation", "Block", "Other"}

\* GossipMessage::{Attestation, Block, Other}: its kind, its data and, for an
\* attestation, its subnet_id (0 otherwise).
GossipMessageOf(kind, data, subnet_id) == [kind |-> kind, data |-> data, subnet_id |-> subnet_id]

GossipMessages ==
    {GossipMessageOf("Attestation", data, subnet_id) : data \in {1, 2}, subnet_id \in 0..MAX_SUBNET_ID}
        \cup {GossipMessageOf(kind, data, 0) : kind \in {"Block", "Other"}, data \in {1, 2}}

\* No gossip message was handled yet.
NoGossip == [message |-> GossipMessageOf("None", 0, 0), relay_open |-> FALSE]

\* RelayCommand::RelayAttestation { attestation_data, subnet_id }
RelayAttestationOf(attestation_data, subnet_id) ==
    [type |-> "RelayAttestation", arg |-> 0,
     attestation_data |-> attestation_data, subnet_id |-> subnet_id]

\* Outcome of a supervisor handler: the commands it sent to the relay and the
\* gossip-engine calls it made, in order.
SupervisorOutcome(sent, calls) == [sent |-> sent, calls |-> calls]

\* handle_gossip_message forwarding every kind of message to the relay.
handle_gossip_message_All(message, relay_open) ==
    IF relay_open
    THEN SupervisorOutcome(<<RelayAttestationOf(message.data, message.subnet_id)>>, <<>>)
    ELSE SupervisorOutcome(<<>>, <<>>)

\* StealthSidecar::handle_gossip_message; relay_open is whether the relay's
\* command channel still has its receiver: FriendRelayHandle::send_command
\* fails once the relay task has ended, and the failure is only logged.
handle_gossip_message(message, relay_open) ==
    IF message.kind = "Attestation" /\ relay_open
    THEN SupervisorOutcome(<<RelayAttestationOf(message.data, message.subnet_id)>>, <<>>)
    ELSE SupervisorOutcome(<<>>, <<>>)

\* Mutant: the loop over the listed subnets ends at the first failing call.
handle_subnet_event_StopAtFailure(event, failing) ==
    LET op    == IF event.type = "SubnetsJoined" THEN "subscribe" ELSE "unsubscribe"
        bad   == {i \in 1..Len(event.subnets) : event.subnets[i] \in failing}
        last  == IF bad = {} THEN Len(event.subnets)
                 ELSE CHOOSE i \in bad : \A k \in bad : i <= k
    IN  IF event.type \in {"SubnetsJoined", "SubnetsLeft"}
        THEN SupervisorOutcome(<<>>,
                [i \in 1..last |-> <<op, event.subnets[i], event.subnets[i] \notin failing>>])
        ELSE SupervisorOutcome(<<>>, <<>>)

\* StealthSidecar::handle_subnet_event; failing is the set of subnets whose
\* gossip-engine call fails (logged, the loop goes on).
handle_subnet_event(event, failing) ==
    CASE event.type = "SubnetsJoined" ->
            SupervisorOutcome(<<>>,
                [i \in 1..Len(event.subnets) |->
                    <<"subscribe", event.subnets[i], event.subnets[i] \notin failing>>])
      [] event.type = "SubnetsLeft" ->
            SupervisorOutcome(<<>>,
                [i \in 1..Len(event.subnets) |->
                    <<"unsubscribe", event.subnets[i], event.subnets[i] \notin failing>>])
      [] OTHER -> SupervisorOutcome(<<>>, <<>>)

\* StealthSidecar::handle_relay_event records metrics only.
handle_relay_event(event) == SupervisorOutcome(<<>>, <<>>)

\* No supervisor is constructed.
SupervisorIdle ==
    /\ s_pc = "idle"
    /\ s_last = Step("None", TRUE)
    /\ s_sent = <<>>
    /\ s_calls = <<>>

\* StealthSidecar::new returned; run is about to start.
SupervisorInit ==
    /\ s_pc = "created"
    /\ s_last = Step("None", TRUE)
    /\ s_sent = <<>>
    /\ s_calls = <<>>

\* The supervisor task takes the outcome r of a handler.
SupervisorTakes(r, op) ==
    /\ s_last' = Step(op, TRUE)
    /\ s_sent' = r.sent
    /\ s_calls' = r.calls

\* run: reth_interceptor.start_interception().await? before the loop.
SupervisorStart(ok) ==
    /\ s_pc = "created"
    /\ s_pc' = IF ok THEN "running" ELSE "failed"
    /\ s_last' = Step("Start", ok)
    /\ UNCHANGED <<s_sent, s_calls, shutdown>>

\* run: the gossip_stream.recv() branch.
SupervisorGossip(message) ==
    /\ s_pc = "running"
    /\ SupervisorTakes(handle_gossip_message(message, r_pc = "running"), "Gossip")
    /\ UNCHANGED <<s_pc, shutdown>>

\* run: the subnet_juggler_handle.recv_event() branch.
SupervisorSubnetEvent(event, failing) ==
    /\ s_pc = "running"
    /\ SupervisorTakes(handle_subnet_event(event, failing), "SubnetEvent")
    /\ UNCHANGED <<s_pc, shutdown>>

\* run: the friend_relay_handle.recv_event() branch.
SupervisorRelayEvent(event) ==
    /\ s_pc = "running"
    /\ SupervisorTakes(handle_relay_event(event), "RelayEvent")
    /\ UNCHANGED <<s_pc, shutdown>>

\* run: the health_check_interval.tick() branch.
SupervisorHealthCheck ==
    /\ s_pc = "running"
    /\ SupervisorTakes(SupervisorOutcome(<<>>, <<>>), "HealthCheck")
    /\ UNCHANGED <<s_pc, shutdown>>

\* run: the shutdown_rx.changed() branch, taken with the value true: break, Ok(()).
SupervisorShutdown ==
    /\ s_pc = "running"
    /\ ShutdownObserved(shutdown)
    /\ s_pc' = "stopped"
    /\ SupervisorTakes(SupervisorOutcome(<<>>, <<>>), "Shutdown")
    /\ UNCHANGED shutdown

\* The owner of the watch channel sends true.
SetShutdown ==
    /\ ~shutdown
    /\ shutdown' = TRUE

(***************************************************************************)
(* MessageQueue                                                            *)
(***************************************************************************)
MessageIds == 1..NumMessageIds

\* MessageQueue::new
MessageQueueNew(max_size) == [max_size |-> max_size, messages |-> <<>>]

\* VecDeque::pop_front, the popped entry dropped
pop_front(messages) == IF messages = <<>> THEN messages ELSE Tail(messages)

\* Mutant: `if` for `while`, at most one expired entry leaves per call.
DropExpired_FrontOnly(messages, cutoff) ==
    IF messages # <<>> /\ messages[1][2] < cutoff THEN Tail(messages) ELSE messages

\* Mutant: an entry exactly as old as the cutoff is dropped too.
RECURSIVE DropExpired_Inclusive(_, _)
DropExpired_Inclusive(messages, cutoff) ==
    IF messages # <<>> /\ messages[1][2] <= cutoff
    THEN DropExpired_Inclusive(Tail(messages), cutoff)
    ELSE messages

\* has_seen: while let Some((_, timestamp)) = front { if *timestamp < cutoff { pop_front } else { break } }
RECURSIVE DropExpired(_, _)
DropExpired(messages, cutoff) ==
    IF messages # <<>> /\ messages[1][2] < cutoff
    THEN DropExpired(Tail(messages), cutoff)
    ELSE messages

\* MessageQueue::has_seen at clock reading t: the queue it leaves and its result
has_seen(queue, t, message_id) ==
    LET kept == DropExpired(queue.messages, t - SEEN_TTL)
    IN  [queue |-> [queue EXCEPT !.messages = kept],
         result |-> \E i \in 1..Len(kept) : kept[i][1] = message_id]

\* add_message: self.messages.len() >= self.max_size
QueueFull(len, max_size) == len >= max_size

\* MessageQueue::add_message at clock reading t
add_message(queue, t, message_id) ==
    LET room == IF QueueFull(Len(queue.messages), queue.max_size)
                THEN pop_front(queue.messages)
                ELSE queue.messages
    IN  [queue EXCEPT !.messages = Append(room, <<message_id, t>>)]

\* A call on the queue: the operation, its argument, the result of has_seen and
\* the number of entries has_seen dropped.
QueueCall(op, message_id, result, dropped) ==
    [op |-> op, id |-> message_id, result |-> result, dropped |-> dropped]

\* A sequence without the first entry equal to e.
RECURSIVE RemoveFirst(_, _)
RemoveFirst(seq, e) ==
    IF seq = <<>> THEN seq
    ELSE IF Head(seq) = e THEN Tail(seq)
    ELSE <<Head(seq)>> \o RemoveFirst(Tail(seq), e)

\* The entries of a history that are at most SEEN_TTL old at clock reading t.
Recent(seq, t) == SelectSeq(seq, LAMBDA e : t - e[2] <= SEEN_TTL)

\* No queue is in use.
QueueIdle ==
    /\ message_queue = MessageQueueNew(0)
    /\ now = 0
    /\ mq_last = QueueCall("none", 0, FALSE, 0)
    /\ mq_live = <<>>

\* MessageQueue::new(max_size)
QueueInit ==
    /\ \E max_size \in 0..MaxQueueSize : message_queue = MessageQueueNew(max_size)
    /\ now = 0
    /\ mq_last = QueueCall("none", 0, FALSE, 0)
    /\ mq_live = <<>>

\* A caller runs add_message(message_id).
QueueAdd(message_id) ==
    /\ message_queue' = add_message(message_queue, now, message_id)
    /\ mq_last' = QueueCall("add_message", message_id, FALSE, 0)
    /\ mq_live' =
          LET popped == QueueFull(Len(message_queue.messages), message_queue.max_size)
                          /\ message_queue.messages # <<>>
              left == IF popped THEN RemoveFirst(mq_live, Head(message_queue.messages))
                      ELSE mq_live
          IN  Append(left, <<message_id, now>>)
    /\ UNCHANGED now

\* A caller runs has_seen(message_id).
QueueHasSeen(message_id) ==
    /\ LET r == has_seen(message_queue, now, message_id)
       IN  /\ message_queue' = r.queue
           /\ mq_last' = QueueCall("has_seen", message_id, r.result,
                                 Len(message_queue.messages) - Len(r.queue.messages))
    /\ UNCHANGED <<now, mq_live>>

\* Time passes between two calls.
QueueTick ==
    /\ now < MaxTime
    /\ now' = now + 1
    /\ mq_last' = QueueCall("tick", 0, FALSE, 0)
    /\ mq_live' = Recent(mq_live, now + 1)
    /\ UNCHANGED message_queue

(***************************************************************************)
(* FriendRelay: the messages of the fanout and the received path           *)
(***************************************************************************)
\* Two distinct attestation payloads.
Payloads == {1, 2}

\* RelayMessage { message_id, attestation_data, subnet_id, timestamp, origin_hint: None }
RelayMessageNew(t, attestation_data, subnet_id) ==
    [message_id |-> <<t, subnet_id>>,
     attestation_data |-> attestation_data,
     subnet_id |-> subnet_id,
     timestamp |-> t,
     origin_hint |-> "None"]

\* The RlnProof the provider returns for an epoch.
RlnProofNew(nullifier, epoch) == [nullifier |-> nullifier, epoch |-> epoch]

\* Mutant: the sender id carries the subnet of the message.
ProvenMessageNew_Tagged(relay_message, rln_proof) ==
    [message |-> relay_message,
     rln_proof |-> rln_proof,
     sender_id |-> <<"stealth_sidecar", relay_message.subnet_id>>]

\* ProvenMessage { message, rln_proof, sender_id: "stealth_sidecar" }
ProvenMessageNew(relay_message, rln_proof) ==
    [message |-> relay_message,
     rln_proof |-> rln_proof,
     sender_id |-> "stealth_sidecar"]

\* run with a RelayAttestation command carrying the payload and the subnet:
\* the proven message is serialized once and handed to every light_push.
RelayAttestation(attestation_data, subnet_id, epochOk, rln_epoch, proofOk, nullifier, delivered) ==
    /\ RelayCommand(RelayAttestationCmd, epochOk, rln_epoch, proofOk, nullifier, delivered)
    /\ r_messages' =
          IF r_pushes' = {} THEN {}
          ELSE {ProvenMessageNew(RelayMessageNew(now, attestation_data, subnet_id),
                                 RlnProofNew(nullifier, rln_epoch))}

\* The number of MessageReceived events in a sequence of events for a message id.
RECURSIVE ReceivedCount(_, _)
ReceivedCount(events, message_id) ==
    IF events = <<>> THEN 0
    ELSE (IF Head(events).type = "MessageReceived" /\ Head(events).message_id = message_id
          THEN 1 ELSE 0) + ReceivedCount(Tail(events), message_id)

\* No message has arrived from a friend.
ReceiveIdle ==
    /\ rx_arrived = [id \in MessageIds |-> 0]
    /\ rx_received = [id \in MessageIds |-> 0]

\* A friend delivers a ProvenMessage with the message id to this node. run
\* selects over the shutdown watch, the stats timer and command_rx only:
\* nothing of the relay takes the message.
FriendDelivers(message_id) ==
    /\ r_pc = "running"
    /\ rx_arrived[message_id] < 2
    /\ rx_arrived' = [rx_arrived EXCEPT ![message_id] = @ + 1]
    /\ UNCHANGED <<rate_limiter, relayVars, shutdown, message_queue, rx_received>>

\* The MessageReceived events of a relay step are counted.
CountReceived ==
    rx_received' = [id \in MessageIds |-> rx_received[id] + ReceivedCount(r_events', id)]

\* The history of the relay's limiter: no call yet.
RunStart ==
    [calls |-> 0, epoch |-> 0, used |-> {}, phase |-> "fill",
     result |-> "None", reported |-> <<>>, count |-> 0]

\* The history after a check_and_update(epoch, nullifier) of the relay: the
\* phase is "fill" while every call so far had the epoch of the first and a
\* nullifier of its own, "advanced" at the first call with a greater epoch
\* after those, "off" from then on and after any other call.
RunAfter(run, epoch, nullifier, result, events, limiter) ==
    LET fill == run.phase = "fill"
                  /\ (run.calls = 0 \/ (epoch = run.epoch /\ nullifier \notin run.used))
        advanced == run.phase = "fill" /\ run.calls > 0 /\ epoch > run.epoch
    IN  [calls |-> IF fill THEN run.calls + 1 ELSE run.calls,
         epoch |-> IF run.calls = 0 THEN epoch ELSE run.epoch,
         used |-> IF fill THEN run.used \cup {nullifier} ELSE run.used,
         phase |-> IF fill THEN "fill" ELSE IF advanced THEN "advanced" ELSE "off",
         result |-> result,
         reported |-> SelectSeq(events, LAMBDA ev : ev.type = "RateLimitExceeded"),
         count |-> limiter.message_count]

\* run with a RelayAttestation command whose epoch fetch and proof succeed,
\* the call on the limiter recorded.
RelayChecked(rln_epoch, nullifier, delivered) ==
    /\ RelayCommand(RelayAttestationCmd, TRUE, rln_epoch, TRUE, nullifier, delivered)
    /\ rl_run' = RunAfter(rl_run, rln_epoch, nullifier, r_last'.limiter, r_events',
                          rate_limiter')

\* The subscriptions of the juggler and of its provider.
Subscriptions(st, prov) ==
    [subscribed |-> st.subscribed_subnets,
     mandatory  |-> st.mandatory_subnets,
     extra      |-> st.extra_subnets,
     provider   |-> prov]

\* No AddSubnets([s]) was just handled.
NoPair == [stage |-> "none", subnet |-> 0, before |-> <<>>, mid |-> <<>>]

\* The history after a step of the juggler task (last, with its events) that
\* led from the subscriptions `from` to `to`: "added" after an AddSubnets([s])
\* handled without error, with the subscriptions before and after it;
\* "added_twice" and "added_removed" when the next step is an AddSubnets([s])
\* or a RemoveSubnets([s]) for the same s handled without error.
PairAfter(pair, last, events, from, to) ==
    LET single == last.ok /\ last.op \in {"AddSubnets", "RemoveSubnets"}
                    /\ Len(events[1].subnets) = 1
        s == events[1].subnets[1]
        second == single /\ pair.stage = "added" /\ pair.subnet = s
    IN  IF second /\ last.op = "AddSubnets" THEN [pair EXCEPT !.stage = "added_twice"]
        ELSE IF second /\ last.op = "RemoveSubnets" THEN [pair EXCEPT !.stage = "added_removed"]
        ELSE IF single /\ last.op = "AddSubnets"
        THEN [stage |-> "added", subnet |-> s, before |-> from, mid |-> to]
        ELSE NoPair

(***************************************************************************)
(* The binary's entry point (src/main.rs) and the configuration            *)
(***************************************************************************)
\* A StealthConfig, as the two fields validate_config reads: the number of extra
\* subnets per epoch and the number of entries of friend_nodes.
StealthConfigOf(extra, friend_count) ==
    [extra_subnets_per_epoch |-> extra, friend_nodes |-> friend_count]

\* StealthConfig::default
StealthConfigDefault == StealthConfigOf(DEFAULT_EXTRA_SUBNETS, 0)

\* The configurations a config file can hold, up to one past each limit.
Configs ==
    {StealthConfigOf(extra, friend_count) :
        extra \in 0..(MAX_EXTRA_SUBNETS + 1), friend_count \in 0..(MIN_FRIEND_NODES + 1)}

\* utils::validate_config
validate_config(config) ==
    IF config.extra_subnets_per_epoch > MAX_EXTRA_SUBNETS THEN "Config"
    ELSE IF config.friend_nodes < MIN_FRIEND_NODES THEN "Config"
    ELSE "Ok"

\* load_config: the parsed file when the path exists, the default otherwise.
load_config(exists, file_config) == IF exists THEN file_config ELSE StealthConfigDefault

\* The two tasks enable_stealth spawns, each with a clone of the configuration.
Started(config) == {[task |-> "SubnetJuggler", config |-> config],
                    [task |-> "FriendRelay", config |-> config]}

MainOutcome(enabled, handles, started, ok) ==
    [stealth_enabled |-> enabled, m_handles |-> handles, m_started |-> started, ok |-> ok]

\* StealthSidecar::enable_stealth (src/main.rs); providerOk is whether
\* RethNetworkProvider::new succeeded.
enable_stealth(enabled, handles, started, config, providerOk) ==
    IF enabled THEN MainOutcome(enabled, handles, started, TRUE)
    ELSE IF ~providerOk THEN MainOutcome(TRUE, handles, started, FALSE)
    ELSE MainOutcome(TRUE, TRUE, started \cup Started(config), TRUE)

\* StealthSidecar::disable_stealth (src/main.rs)
disable_stealth(enabled, handles, started) ==
    IF ~enabled THEN MainOutcome(enabled, handles, started, TRUE)
    ELSE MainOutcome(FALSE, FALSE, started, TRUE)

MainIdle ==
    /\ m_pc = "idle"
    /\ m_args = [stealth |-> FALSE]
    /\ m_config = StealthConfigDefault
    /\ stealth_enabled = FALSE
    /\ m_handles = FALSE
    /\ m_started = {}

\* No call yet: the function, its arguments, its result and, for all_subnets, the
\* list it returned.
CalcNone == [f |-> "none", arg |-> <<>>, result |-> [kind |-> "none", value |-> 0], list |-> <<>>]

\* No epoch_timer was created: its period, the time of its next tick, and the
\* history of the times of initialize and of the last tick and of the
\* seconds_until_next_epoch of the EpochInfo queried then.
TimerNone == [armed |-> FALSE, period |-> 0, next |-> 0, init_at |-> 0, at |-> 0, until |-> 0]

\* No handler of the juggler was started: the handlers in progress, oldest
\* first, and the handler that returned last.
InflightNone == [running |-> <<>>, finished |-> [handler |-> "None", ok |-> TRUE, calls |-> 0]]

\* The supervisor handled no subnet event yet.
NoSubnetEvent == [type |-> "None", subnets |-> <<>>, failing |-> {}]

LastIdle == s_event = NoSubnetEvent /\ m_tasks = <<>>

\* The provider reports no validator subnets, no timer runs, no handler is in progress.
LateIdle ==
    validator_subnets = {} /\ j_timer = TimerNone /\ j_inflight = InflightNone /\ LastIdle

\* Neither the entry point nor a pure function is in use.
AuxIdle == MainIdle /\ calc = CalcNone /\ s_gossip = NoGossip /\ LateIdle

\* main: the command line is parsed and run_sidecar is about to load the configuration.
MainInit ==
    /\ m_pc = "load"
    /\ m_args \in [stealth : BOOLEAN]
    /\ m_config = StealthConfigDefault
    /\ stealth_enabled = FALSE
    /\ m_handles = FALSE
    /\ m_started = {}

MainTakes(r, pc) ==
    /\ stealth_enabled' = r.stealth_enabled
    /\ m_handles' = r.m_handles
    /\ m_started' = r.m_started
    /\ m_pc' = pc
    /\ UNCHANGED <<m_args, m_config>>

\* run_sidecar up to StealthSidecar::new: load_config(&args.config).await?
MainLoad(exists, parsed, file_config) ==
    /\ m_pc = "load"
    /\ IF exists /\ ~parsed
       THEN m_pc' = "exited" /\ m_config' = m_config
       ELSE m_pc' = "new" /\ m_config' = load_config(exists, file_config)
    /\ UNCHANGED <<m_args, stealth_enabled, m_handles, m_started>>

\* run_sidecar from StealthSidecar::new to the event loop:
\* if args.stealth { sidecar.enable_stealth(..).await? }
MainStart(providerOk) ==
    /\ m_pc = "new"
    /\ IF m_args.stealth
       THEN LET r == enable_stealth(stealth_enabled, m_handles, m_started, m_config, providerOk)
            IN  MainTakes(r, IF r.ok THEN "loop" ELSE "exited")
       ELSE MainTakes(MainOutcome(stealth_enabled, m_handles, m_started, TRUE), "loop")

\* The event loop of run_sidecar: SidecarCommand::EnableStealth
MainEnableStealth(providerOk) ==
    /\ m_pc = "loop"
    /\ MainTakes(enable_stealth(stealth_enabled, m_handles, m_started, m_config, providerOk),
                 "loop")

\* The event loop of run_sidecar: SidecarCommand::DisableStealth
MainDisableStealth ==
    /\ m_pc = "loop"
    /\ MainTakes(disable_stealth(stealth_enabled, m_handles, m_started), "loop")

\* The event loop of run_sidecar: SidecarCommand::Shutdown, then the cleanup
\* after the loop.
MainShutdown ==
    /\ m_pc = "loop"
    /\ MainTakes(disable_stealth(stealth_enabled, m_handles, m_started), "exited")

\* Nothing but the components is in use.
RestIdle ==
    /\ QueueIdle
    /\ ReceiveIdle
    /\ r_messages = {}
    /\ rl_run = RunStart
    /\ j_pair = NoPair
    /\ AuxIdle

(***************************************************************************)
(* Specifications                                                          *)
(***************************************************************************)
\* No history of the limiter is kept.
LimiterHistoryIdle ==
    /\ rl_watch = <<0, 1>>
    /\ rl_watch_count = 0
    /\ rl_watch_status = "never"
    /\ rl_last = NoCall

LimiterIdle == rate_limiter = RateLimiterNew(0) /\ LimiterHistoryIdle

\* The rate limiter alone, under every sequence of check_and_update calls.
InitLimiter ==
    LimiterInit /\ JugglerIdle /\ RelayIdle /\ SupervisorIdle /\ RestIdle /\ shutdown = FALSE

LimiterNext ==
    \E epoch \in RlnEpochs, nullifier \in Nullifiers :
        /\ CheckAndUpdate(epoch, nullifier)
        /\ UNCHANGED <<jugglerVars, relayVars, supervisorVars, shutdown, restVars>>

SpecLimiter == InitLimiter /\ [][LimiterNext]_vars

\* The juggler task from construction to the end of run.
InitJuggler ==
    JugglerInit /\ LimiterIdle /\ RelayIdle /\ SupervisorIdle /\ RestIdle /\ shutdown = FALSE

\* The provider calls an AddSubnets / RemoveSubnets of the list makes when
\* none fails, and the numbers of the call that fails (0: none).
FailAmong(n) == 0..n

\* The inputs of a reshuffle: the shuffled selection and how the provider
\* calls end (the selection plays no part when an unsubscribe call fails).
ReshuffleInputs ==
    UNION {{<<new, f>> : f \in {NoFailure} \cup FailureIn("subscribe", new)} :
             new \in Selections(state, extra_subnets_per_epoch)}
    \cup {<<{}, f>> : f \in FailureIn("unsubscribe", state.extra_subnets)}

\* The epoch timer fires: the provider answers the epoch query or fails.
JugglerTick ==
    \/ \E epoch \in Epochs, in \in ReshuffleInputs :
          JugglerEpochTick(TRUE, epoch, in[1], in[2])
    \/ JugglerEpochTick(FALSE, 0, {}, NoFailure)

JugglerNext ==
    \/ \E epoch \in Epochs, m \in MandatoryChoices :
          \E new \in Selections([state EXCEPT !.mandatory_subnets = m],
                                 extra_subnets_per_epoch) :
          \E f \in {NoFailure} \cup FailureIn("mandatory", m) \cup FailureIn("subscribe", new) :
              JugglerInitialize(TRUE, epoch, TRUE, m, new, f)
    \/ \E epoch \in Epochs : JugglerInitialize(TRUE, epoch, FALSE, {}, {}, NoFailure)
    \/ JugglerInitialize(FALSE, 0, FALSE, {}, {}, NoFailure)
    \/ JugglerTick
    \/ \E in \in ReshuffleInputs : JugglerCommand(ForceReshuffleCmd, in[1], in[2], 0)
    \/ \E list \in SubnetLists :
          \E fail \in FailAmong(Cardinality(SeqToSet(list) \ state.subscribed_subnets)) :
              JugglerCommand(AddSubnetsCmd(list), {}, NoFailure, fail)
    \/ \E list \in SubnetLists :
          \E fail \in FailAmong(Cardinality(SeqToSet(list) \cap state.extra_subnets)) :
              JugglerCommand(RemoveSubnetsCmd(list), {}, NoFailure, fail)
    \/ JugglerCommand(GetStatusCmd, {}, NoFailure, 0)
    \/ JugglerCommand(StopCmd, {}, NoFailure, 0)
    \/ JugglerShutdown
    \/ \E failing \in SUBSET state.extra_subnets : JugglerCleanup(failing)
    \/ SetShutdown /\ UNCHANGED jugglerVars

\* What a step of the juggler task leaves alone.
JugglerFrame == UNCHANGED <<limiterVars, relayVars, supervisorVars, restVars>>

SpecJuggler == InitJuggler /\ [][JugglerNext /\ JugglerFrame]_vars

\* The juggler task under a fair scheduler: the epoch timer keeps firing, a
\* select loop whose shutdown branch stays ready takes it, and the code after
\* the loop runs.
FairJuggler ==
    /\ SpecJuggler
    /\ WF_vars(JugglerTick /\ JugglerFrame)
    /\ WF_vars(JugglerShutdown /\ JugglerFrame)
    /\ WF_vars(\E failing \in SUBSET state.extra_subnets :
                  JugglerCleanup(failing) /\ JugglerFrame)

\* The relay task from the start of run to its end.
InitRelay ==
    /\ RelayInit /\ LimiterHistoryIdle /\ JugglerIdle /\ SupervisorIdle /\ RestIdle
    /\ shutdown = FALSE

\* What a step of the relay task leaves alone.
RelayFrame == UNCHANGED <<limiterHistory, jugglerVars, supervisorVars, restVars>>

\* The sets of friends whose light_push can succeed; no push is made when the
\* limiter rejects the message.
FanoutResults(rln_epoch, nullifier) ==
    IF check_and_update(rate_limiter, rln_epoch, nullifier).result = "Ok"
    THEN SUBSET friends
    ELSE {{}}

RelayNext ==
    \/ \E rln_epoch \in RelayEpochs, nullifier \in Nullifiers :
          \E delivered \in FanoutResults(rln_epoch, nullifier) :
              RelayCommand(RelayAttestationCmd, TRUE, rln_epoch, TRUE, nullifier, delivered)
    \/ \E rln_epoch \in RelayEpochs :
          RelayCommand(RelayAttestationCmd, TRUE, rln_epoch, FALSE, 0, {})
    \/ RelayCommand(RelayAttestationCmd, FALSE, 0, FALSE, 0, {})
    \/ \E id \in FriendIds : RelayCommand(AddFriendCmd(id), FALSE, 0, FALSE, 0, {})
    \/ \E id \in FriendIds : RelayCommand(RemoveFriendCmd(id), FALSE, 0, FALSE, 0, {})
    \/ RelayCommand(GetStatsCmd, FALSE, 0, FALSE, 0, {})
    \/ \E l \in 0..MaxLimit : RelayCommand(UpdateRlnCmd(l), FALSE, 0, FALSE, 0, {})
    \/ RelayCommand(RelayStopCmd, FALSE, 0, FALSE, 0, {})
    \/ RelayStatsTick
    \/ RelayShutdown
    \/ SetShutdown /\ UNCHANGED <<rate_limiter, relayVars>>

SpecRelay == InitRelay /\ [][RelayNext /\ RelayFrame]_vars

\* The three tasks the sidecar runs, each from the start of its run to its end,
\* and the owner of the shutdown watch; the relay is configured with every friend
\* and the largest rate limit. Every branch of every select loop
\* is taken; the provider calls of the handlers succeed, but for one failing
\* handler per loop, since a handler's data plays no part in leaving a loop.
InitLifecycle ==
    /\ JugglerInit
    /\ RelayInit
    /\ friends = FriendIds
    /\ rate_limiter = RateLimiterNew(MaxLimit)
    /\ SupervisorInit
    /\ LimiterHistoryIdle
    /\ RestIdle
    /\ shutdown = FALSE

LifecycleJuggler ==
    \/ \E m \in MandatoryChoices :
          \E new \in Selections([state EXCEPT !.mandatory_subnets = m],
                                 extra_subnets_per_epoch) :
              JugglerInitialize(TRUE, 0, TRUE, m, new, NoFailure)
    \/ JugglerInitialize(FALSE, 0, FALSE, {}, {}, NoFailure)
    \/ JugglerEpochTick(FALSE, 0, {}, NoFailure)
    \/ JugglerCommand(GetStatusCmd, {}, NoFailure, 0)
    \/ JugglerCommand(StopCmd, {}, NoFailure, 0)
    \/ JugglerShutdown
    \/ \E failing \in SUBSET state.extra_subnets : JugglerCleanup(failing)

LifecycleRelay ==
    \/ RelayCommand(RelayAttestationCmd, FALSE, 0, FALSE, 0, {})
    \/ RelayCommand(GetStatsCmd, FALSE, 0, FALSE, 0, {})
    \/ RelayCommand(RelayStopCmd, FALSE, 0, FALSE, 0, {})
    \/ RelayStatsTick
    \/ RelayShutdown

LifecycleSupervisor ==
    \/ \E ok \in BOOLEAN : SupervisorStart(ok)
    \/ \E kind \in GossipKinds : SupervisorGossip(GossipMessageOf(kind, 1, 0))
    \/ SupervisorSubnetEvent(ErrorEvent, {})
    \/ SupervisorRelayEvent(RelayError)
    \/ SupervisorHealthCheck
    \/ SupervisorShutdown

JugglerStep == LifecycleJuggler /\ JugglerFrame
RelayTaskStep == LifecycleRelay /\ RelayFrame
SupervisorFrame == UNCHANGED <<limiterVars, jugglerVars, relayVars, restVars>>

SupervisorStep == LifecycleSupervisor /\ SupervisorFrame
ShutdownStep ==
    SetShutdown /\ UNCHANGED <<limiterVars, jugglerVars, relayVars, supervisorVars, restVars>>

LifecycleNext == JugglerStep \/ RelayTaskStep \/ SupervisorStep \/ ShutdownStep

\* A fair scheduler: a task whose shutdown branch stays ready takes it, and the
\* code after the juggler's loop runs.
SpecLifecycle ==
    /\ InitLifecycle
    /\ [][LifecycleNext]_vars
    /\ WF_vars(JugglerShutdown /\ JugglerFrame)
    /\ WF_vars(\E failing \in SUBSET state.extra_subnets :
                  JugglerCleanup(failing) /\ JugglerFrame)
    /\ WF_vars(RelayShutdown /\ RelayFrame)
    /\ WF_vars(SupervisorShutdown /\ SupervisorFrame)

\* The fanout reaches every friend or none; no push is made when the limiter
\* rejects the message.
EgressResults(rln_epoch, nullifier) == FanoutResults(rln_epoch, nullifier) \cap {{}, friends}

\* The relay handling RelayAttestation commands of every payload and subnet,
\* for every configured friend set and rate limit.
EgressNext ==
    \/ \E attestation_data \in Payloads, subnet_id \in Subnets,
          rln_epoch \in RelayEpochs, nullifier \in Nullifiers :
          \E delivered \in EgressResults(rln_epoch, nullifier) :
              RelayAttestation(attestation_data, subnet_id, TRUE, rln_epoch, TRUE,
                               nullifier, delivered)
    \/ \E attestation_data \in Payloads, subnet_id \in Subnets, rln_epoch \in RelayEpochs :
          RelayAttestation(attestation_data, subnet_id, TRUE, rln_epoch, FALSE, 0, {})
    \/ \E attestation_data \in Payloads, subnet_id \in Subnets :
          RelayAttestation(attestation_data, subnet_id, FALSE, 0, FALSE, 0, {})

EgressFrame ==
    UNCHANGED <<limiterHistory, jugglerVars, supervisorVars, queueVars, receiveVars, rl_run,
                j_pair, auxVars>>

\* A relay with the largest rate limit and a friend set of every size.
InitEgress ==
    /\ InitRelay
    /\ rate_limiter = RateLimiterNew(MaxLimit)
    /\ \E k \in 0..NumFriends : friends = 1..k

SpecEgress == InitEgress /\ [][EgressNext /\ EgressFrame]_vars

\* The relay task and the friends that deliver messages to this node.
InitReceive ==
    /\ RelayInit /\ LimiterHistoryIdle /\ JugglerIdle /\ SupervisorIdle
    /\ message_queue = MessageQueueNew(MaxQueueSize)
    /\ now = 0
    /\ mq_last = QueueCall("none", 0, FALSE, 0)
    /\ mq_live = <<>>
    /\ ReceiveIdle
    /\ r_messages = {}
    /\ rl_run = RunStart
    /\ j_pair = NoPair
    /\ AuxIdle
    /\ shutdown = FALSE

ReceiveFrame ==
    UNCHANGED <<limiterHistory, jugglerVars, supervisorVars, now, mq_last, mq_live,
                r_messages, rl_run, j_pair, auxVars>>

ReceiveNext ==
    \/ RelayNext /\ CountReceived /\ UNCHANGED <<message_queue, rx_arrived>>
    \/ \E message_id \in MessageIds : FriendDelivers(message_id)

SpecReceive == InitReceive /\ [][ReceiveNext /\ ReceiveFrame]_vars

\* Nullifiers enough for one more call than the largest rate limit.
TripNullifiers == 1..(MaxLimit + 1)

\* A RelayAttestation command: the proof is made, or the proof or the epoch
\* fetch fails.
RateTripCommand ==
    \/ \E rln_epoch \in RelayEpochs, nullifier \in TripNullifiers :
          \E delivered \in EgressResults(rln_epoch, nullifier) :
              RelayChecked(rln_epoch, nullifier, delivered)
    \/ \E rln_epoch \in RelayEpochs :
          /\ RelayCommand(RelayAttestationCmd, TRUE, rln_epoch, FALSE, 0, {})
          /\ UNCHANGED rl_run
    \/ /\ RelayCommand(RelayAttestationCmd, FALSE, 0, FALSE, 0, {})
       /\ UNCHANGED rl_run

\* The relay handling RelayAttestation commands, the provider returning any
\* epoch and nullifier for each, up to the first call on the limiter that
\* repeats a nullifier or changes the epoch.
RateTripNext ==
    /\ rl_run.phase = "fill"
    /\ RateTripCommand

RateTripFrame ==
    UNCHANGED <<limiterHistory, jugglerVars, supervisorVars, queueVars, receiveVars,
                r_messages, j_pair, auxVars>>

SpecRateTrip == InitRelay /\ [][RateTripNext /\ RateTripFrame]_vars

\* A MessageQueue of any bound under every sequence of add_message and
\* has_seen calls, time passing between them.
InitQueue ==
    /\ QueueInit /\ ReceiveIdle /\ r_messages = {} /\ rl_run = RunStart /\ j_pair = NoPair
    /\ LimiterIdle /\ JugglerIdle /\ RelayIdle /\ SupervisorIdle /\ shutdown = FALSE
    /\ AuxIdle

QueueNext ==
    \/ \E message_id \in MessageIds : QueueAdd(message_id)
    \/ \E message_id \in MessageIds : QueueHasSeen(message_id)
    \/ QueueTick

QueueFrame ==
    UNCHANGED <<limiterVars, jugglerVars, relayVars, supervisorVars, shutdown,
                receiveVars, r_messages, rl_run, j_pair, auxVars>>

SpecQueue == InitQueue /\ [][QueueNext /\ QueueFrame]_vars

\* The steps of the juggler task with AddSubnets and RemoveSubnets commands of
\* one subnet; only the calls of a reshuffle and of the commands can fail.
PairJuggler ==
    \/ \E epoch \in Epochs, m \in MandatoryChoices :
          \E new \in Selections([state EXCEPT !.mandatory_subnets = m],
                                 extra_subnets_per_epoch) :
              JugglerInitialize(TRUE, epoch, TRUE, m, new, NoFailure)
    \/ \E in \in ReshuffleInputs : JugglerEpochTick(TRUE, state.current_epoch, in[1], in[2])
    \/ \E s \in Subnets, fail \in FailAmong(1) :
          /\ fail = 1 => AddWanted(state, s)
          /\ JugglerCommand(AddSubnetsCmd(<<s>>), {}, NoFailure, fail)
    \/ \E s \in Subnets, fail \in FailAmong(1) :
          /\ fail = 1 => RemoveWanted(state, s)
          /\ JugglerCommand(RemoveSubnetsCmd(<<s>>), {}, NoFailure, fail)
    \/ JugglerCommand(GetStatusCmd, {}, NoFailure, 0)
    \/ JugglerShutdown
    \/ \E failing \in SUBSET state.extra_subnets : JugglerCleanup(failing)

\* The juggler task, with the history of the commands handled back to back.
PairNext ==
    \/ /\ PairJuggler
       /\ shutdown' = shutdown
       /\ j_pair' = PairAfter(j_pair, j_last', j_events',
                              Subscriptions(state, provider_subscribed),
                              Subscriptions(state', provider_subscribed'))
    \/ SetShutdown /\ UNCHANGED <<jugglerVars, j_pair>>

PairFrame ==
    UNCHANGED <<limiterVars, relayVars, supervisorVars, queueVars, receiveVars,
                r_messages, rl_run, auxVars>>

SpecPair == InitJuggler /\ [][PairNext /\ PairFrame]_vars

(***************************************************************************)
(* Claims about the rate limiter (checked under SpecLimiter).              *)
(***************************************************************************)
\* C1: for every epoch e the number of check_and_update calls with epoch e that
\* returned Ok is at most rate_limit_per_epoch, and no nullifier bucket holds
\* more than rate_limit_per_epoch entries, whatever the order of the epochs.
C1_AcceptedPerEpochBounded ==
    /\ rl_watch_count <= rate_limiter.rate_limit_per_epoch
    /\ \A e \in DOMAIN rate_limiter.nullifiers_seen :
          Len(rate_limiter.nullifiers_seen[e]) <= rate_limiter.rate_limit_per_epoch

\* C2 (as claimed): a call repeating an <<epoch, nullifier>> pair that an earlier
\* call returned Ok for never returns Ok, whatever calls happened in between.
C2_ReplayAlwaysRejected ==
    rl_last.watched \in {"live", "evicted"} => rl_last.result # "Ok"

\* C2 (amended): a call repeating an accepted <<epoch, nullifier>> pair returns
\* Err (nullifier reuse) as long as no call since the acceptance advanced
\* current_epoch beyond epoch + 3.
C2_ReplayRejectedWithinWindow ==
    rl_last.watched = "live" => rl_last.result = "ErrNullifier"

\* C2 witness: a replay is rejected although the counter was reset by an epoch
\* advance (inside the window) after the pair was accepted.
C2_Witness ==
    /\ rl_last.watched = "live"
    /\ rl_last.result = "ErrNullifier"
    /\ rl_last.epoch < rate_limiter.current_epoch
    /\ rate_limiter.message_count < rate_limiter.rate_limit_per_epoch

(***************************************************************************)
(* Claims about the subnet juggler (checked under SpecJuggler).            *)
(***************************************************************************)
\* The juggler has completed initialize.
Initialized == j_pc \in {"running", "cleanup", "stopped"}

\* C3: in every state of an initialized juggler the number of extra subnets is
\* at most min(extra_subnets_per_epoch, number of subnets - |mandatory|), also
\* after AddSubnets.
C3_ExtrasBounded ==
    Initialized =>
        Cardinality(state.extra_subnets)
            <= Min(extra_subnets_per_epoch,
                   Cardinality(Subnets) - Cardinality(state.mandatory_subnets))

\* C4: mandatory_subnets and extra_subnets are disjoint in every state.
C4_MandatoryExtraDisjoint ==
    state.mandatory_subnets \cap state.extra_subnets = {}

\* C4 witness: an AddSubnets whose list names a mandatory subnet returned Ok
\* while the juggler holds extras.
C4_Witness ==
    /\ j_last = Step("AddSubnets", TRUE)
    /\ Len(j_events) = 1
    /\ SeqToSet(j_events[1].subnets) \cap state.mandatory_subnets # {}
    /\ state.extra_subnets # {}

\* C5: after an epoch tick or a ForceReshuffle has returned, with Ok or with an
\* error, every subnet subscribed at the provider is a mandatory or an extra
\* subnet of the state (no orphan subscription).
C5_NoOrphanAfterReshuffle ==
    j_last.op \in {"EpochTick", "ForceReshuffle"} =>
        provider_subscribed \subseteq
            state.mandatory_subnets \cup state.extra_subnets

\* C6: in every state of an initialized juggler subscribed_subnets is the union
\* of mandatory_subnets and extra_subnets, also after a failed provider call.
C6_SubscribedIsUnion ==
    Initialized =>
        state.subscribed_subnets = state.mandatory_subnets \cup state.extra_subnets

\* C7: a RemoveSubnets step issues no unsubscribe for a mandatory subnet, leaves
\* mandatory_subnets unchanged and contained in subscribed_subnets, and removes
\* only extras from the state and from the provider.
C7_RemoveSparesMandatory ==
    [][j_last'.op = "RemoveSubnets" =>
          /\ \A c \in j_calls' :
                c[1] = "unsubscribe" => c[2] \notin state.mandatory_subnets
          /\ state'.mandatory_subnets = state.mandatory_subnets
          /\ state'.mandatory_subnets \subseteq state'.subscribed_subnets
          /\ state.subscribed_subnets \ state'.subscribed_subnets
                \subseteq state.extra_subnets
          /\ provider_subscribed \ provider_subscribed'
                \subseteq state.extra_subnets]_vars

\* C7 witness: a RemoveSubnets whose list names a mandatory subnet returned Ok
\* and the subnet is still subscribed.
C7_Witness ==
    /\ j_last = Step("RemoveSubnets", TRUE)
    /\ Len(j_events) = 1
    /\ \E s \in SeqToSet(j_events[1].subnets) :
          /\ s \in state.mandatory_subnets
          /\ s \in provider_subscribed

\* C8 (checked under FairJuggler): after the juggler has consumed a Stop
\* command it leaves the run loop and has run cleanup exactly once.
C8_StopLeadsToCleanup ==
    (j_last.op = "Stop") ~> (j_pc = "stopped" /\ j_cleanups = 1)

Delivered == Cardinality({p \in r_pushes : p[2]})

\* C10: a RelayAttestation that passed the rate limiter made exactly one
\* light_push per friend; with k >= 1 successes it sent MessageRelayed with
\* friends_count k and no Error, with k = 0 it sent no MessageRelayed and an
\* Error.
C10_FanoutOutcome ==
    (r_last.op = "RelayAttestation" /\ r_last.limiter = "Ok") =>
        /\ {p[1] : p \in r_pushes} = friends
        /\ Cardinality(r_pushes) = Cardinality(friends)
        /\ Delivered >= 1 => r_events = <<MessageRelayed(Delivered)>> /\ r_last.ok
        /\ Delivered = 0 => r_events = <<RelayError>> /\ ~r_last.ok

\* C10 witness: a relay that passed the limiter reached some but not all of
\* its friends.
C10_Witness ==
    /\ r_last.op = "RelayAttestation" /\ r_last.limiter = "Ok"
    /\ Delivered >= 1
    /\ Delivered < Cardinality(friends)
    /\ r_events = <<MessageRelayed(Delivered)>>

\* C11: a RelayAttestation the rate limiter rejected (exhausted counter or
\* reused nullifier) sent a RateLimitExceeded event and made no light_push.
C11_RejectedRelaySendsNothing ==
    (r_last.op = "RelayAttestation" /\ r_last.limiter \in {"ErrRateLimit", "ErrNullifier"}) =>
        /\ r_pushes = {}
        /\ Len(r_events) >= 1
        /\ r_events[1].type = "RateLimitExceeded"
        /\ \A i \in 1..Len(r_events) : r_events[i].type # "MessageRelayed"

\* C11 witness: a relay was rejected for a reused nullifier while the counter
\* was below the limit and friends were configured.
C11_Witness ==
    /\ r_last.op = "RelayAttestation" /\ r_last.limiter = "ErrNullifier"
    /\ rate_limiter.message_count < rate_limiter.rate_limit_per_epoch
    /\ friends # {}
    /\ r_pushes = {}
    /\ r_events[1].type = "RateLimitExceeded"

\* C12: a RelayAttestation whose epoch fetch or proof generation failed made no
\* light_push, sent an Error event, left the rate limiter as it was, and the
\* relay stays in its loop.
C12_ProviderFailureDropsMessage ==
    [][(r_last'.op = "RelayAttestation" /\ r_last'.limiter = "None"
        /\ shutdown' = shutdown) =>
          /\ r_pushes' = {}
          /\ r_events' = <<RelayError>>
          /\ ~r_last'.ok
          /\ rate_limiter' = rate_limiter
          /\ r_pc' = "running"]_vars

\* C12 witness: the epoch fetch or the proof failed for a relay whose limiter
\* had already counted messages.
C12_Witness ==
    /\ r_last.op = "RelayAttestation" /\ r_last.limiter = "None"
    /\ r_events = <<RelayError>>
    /\ r_pushes = {}
    /\ rate_limiter.message_count >= 1
    /\ r_pc = "running"

\* C13: every ProvenMessage the relay hands to light_push has no origin hint
\* and carries the one sender id "stealth_sidecar", whatever the payload, the
\* subnet, the friend set and the epoch.
C13_EgressIsAnonymous ==
    \A m \in r_messages :
        /\ m.message.origin_hint = "None"
        /\ m.sender_id = "stealth_sidecar"

\* C13 witness: a message for the last subnet and the last payload, proven for
\* epoch 1, was handed to light_push for more than one friend.
C13_Witness ==
    /\ Cardinality(r_pushes) > 1
    /\ \E m \in r_messages :
          /\ m.message.subnet_id = MAX_SUBNET_ID
          /\ m.message.attestation_data = 2
          /\ m.rln_proof.epoch = 1

\* C14: once two identical ProvenMessages have arrived from friends, the relay
\* has recorded the message id in its seen cache and has sent MessageReceived
\* for it exactly once.
C14_SecondArrivalDropped ==
    \A message_id \in MessageIds :
        rx_arrived[message_id] = 2 =>
            /\ rx_received[message_id] = 1
            /\ \E i \in 1..Len(message_queue.messages) :
                  message_queue.messages[i][1] = message_id

\* C15: on a relay with rate limit L whose check_and_update calls so far all
\* had one epoch e and pairwise distinct nullifiers, each of the first L calls
\* returned Ok and the (L+1)-th returned the rate-limit error, reported as
\* RateLimitExceeded{epoch: e, attempts: L, limit: L}; the first call with a
\* greater epoch after them leaves the counter at that one accepted message
\* (for L >= 1).
C15_RateLimitTrip ==
    LET L == rate_limiter.rate_limit_per_epoch
    IN  /\ (rl_run.phase = "fill" /\ rl_run.calls \in 1..L) => rl_run.result = "Ok"
        /\ (rl_run.phase = "fill" /\ rl_run.calls = L + 1) =>
              /\ rl_run.result = "ErrRateLimit"
              /\ rl_run.reported = <<RateLimitExceeded(<<rl_run.epoch, L, L>>)>>
        /\ (rl_run.phase = "advanced" /\ L >= 1) =>
              /\ rl_run.result = "Ok"
              /\ rl_run.count = 1
              /\ rl_run.reported = <<>>

\* C15 witness: a limiter at its largest limit accepted that many calls at
\* epoch 0, rejected the next, and then accepted a call at epoch 1.
C15_Witness ==
    /\ rate_limiter.rate_limit_per_epoch = MaxLimit
    /\ rl_run.phase = "advanced"
    /\ rl_run.epoch = 0
    /\ rl_run.calls = MaxLimit + 1
    /\ rl_run.result = "Ok"
    /\ rate_limiter.current_epoch = 1

\* C16 as stated: has_seen(id) returns true iff id was passed to add_message
\* less than SEEN_TTL ago by a call whose entry the size bound has not popped.
C16_SeenIffAddedLessThanTtlAgo ==
    mq_last.op = "has_seen" =>
        (mq_last.result <=>
            \E i \in 1..Len(mq_live) :
                mq_live[i][1] = mq_last.id /\ now - mq_live[i][2] < SEEN_TTL)

\* C16 amended: has_seen(id) returns true iff id was passed to add_message at
\* most SEEN_TTL ago by a call whose entry the size bound has not popped; an
\* id never added is not seen, and has_seen adds nothing.
C16_SeenIffAddedAtMostTtlAgo ==
    mq_last.op = "has_seen" =>
        (mq_last.result <=>
            \E i \in 1..Len(mq_live) :
                mq_live[i][1] = mq_last.id /\ now - mq_live[i][2] <= SEEN_TTL)

\* C16 witness: has_seen found an id whose only entry is exactly SEEN_TTL old,
\* in a queue that holds another id as well.
C16_Witness ==
    /\ mq_last.op = "has_seen" /\ mq_last.result
    /\ \A i \in 1..Len(mq_live) :
          mq_live[i][1] = mq_last.id => now - mq_live[i][2] = SEEN_TTL
    /\ \E i \in 1..Len(message_queue.messages) :
          message_queue.messages[i][1] # mq_last.id

\* C17: a MessageQueue created with bound max_size never stores more than
\* max_size entries.
C17_SizeBounded == Len(message_queue.messages) <= message_queue.max_size

\* C18 as stated: in every state the queue holds no entry added more than
\* SEEN_TTL ago.
C18_NoStaleEntry ==
    \A i \in 1..Len(message_queue.messages) :
        now - message_queue.messages[i][2] <= SEEN_TTL

\* C18 amended: right after a has_seen call the queue holds no entry added
\* more than SEEN_TTL ago.
C18_NoStaleEntryAfterHasSeen ==
    mq_last.op = "has_seen" =>
        \A i \in 1..Len(message_queue.messages) :
            now - message_queue.messages[i][2] <= SEEN_TTL

\* C18 witness: has_seen dropped two stale entries and kept a younger one.
C18_Witness ==
    /\ mq_last.op = "has_seen"
    /\ mq_last.dropped = 2
    /\ message_queue.messages # <<>>

\* C19: an AddSubnets([s]) handled right after an AddSubnets([s]) leaves the
\* SubnetState and the provider's subscriptions as the first left them and
\* makes no provider call.
C19_SecondAddChangesNothing ==
    j_pair.stage = "added_twice" =>
        /\ Subscriptions(state, provider_subscribed) = j_pair.mid
        /\ j_calls = {}

\* C19 witness: AddSubnets([s]) was handled twice for a subnet the first
\* subscribed as an extra.
C19_Witness ==
    /\ j_pair.stage = "added_twice"
    /\ j_pair.subnet \notin j_pair.before.subscribed
    /\ j_pair.subnet \in state.extra_subnets
    /\ j_pair.subnet \in provider_subscribed

\* C20 as stated: an AddSubnets([s]) followed by a RemoveSubnets([s]) leaves
\* subscribed_subnets, mandatory_subnets and extra_subnets as they were before
\* the pair, for every s.
C20_AddRemoveRestores ==
    j_pair.stage = "added_removed" =>
        /\ state.subscribed_subnets = j_pair.before.subscribed
        /\ state.mandatory_subnets = j_pair.before.mandatory
        /\ state.extra_subnets = j_pair.before.extra

\* C20 amended: the same, for every s that is not an extra before the pair.
C20_AddRemoveRestoresNonExtra ==
    (j_pair.stage = "added_removed" /\ j_pair.subnet \notin j_pair.before.extra) =>
        /\ state.subscribed_subnets = j_pair.before.subscribed
        /\ state.mandatory_subnets = j_pair.before.mandatory
        /\ state.extra_subnets = j_pair.before.extra

\* C20 witness: the pair was handled for a subnet that was not subscribed, the
\* add subscribing it and the remove unsubscribing it, beside another extra.
C20_Witness ==
    /\ j_pair.stage = "added_removed"
    /\ j_pair.subnet \notin j_pair.before.subscribed
    /\ j_pair.subnet \in j_pair.mid.extra
    /\ j_pair.before.extra # {}
    /\ j_calls = {<<"unsubscribe", j_pair.subnet, TRUE>>}

\* C21: after a reshuffle all of whose provider calls succeeded (in initialize,
\* at an epoch tick or for ForceReshuffle) extra_subnets has exactly
\* min(K, number of subnets - |mandatory|) members, each a subnet id and none
\* mandatory, and the list an epoch tick reports has that length.
C21_ReshuffleSelectsExactly ==
    (j_last.ok /\ j_last.op \in {"Initialize", "EpochTick", "ForceReshuffle"}) =>
        LET n == Min(extra_subnets_per_epoch,
                     Cardinality(Subnets) - Cardinality(state.mandatory_subnets))
        IN  /\ Cardinality(state.extra_subnets) = n
            /\ state.extra_subnets \subseteq Subnets
            /\ state.extra_subnets \cap state.mandatory_subnets = {}
            /\ j_last.op = "EpochTick" =>
                  /\ j_events[Len(j_events)].type = "EpochReshuffle"
                  /\ Len(j_events[Len(j_events)].subnets) = n
                  /\ SeqToSet(j_events[Len(j_events)].subnets) = state.extra_subnets

\* C21 witness: an epoch tick reshuffled with K larger than the number of
\* non-mandatory subnets, and every non-mandatory subnet is an extra.
C21_Witness ==
    /\ j_last = Step("EpochTick", TRUE)
    /\ extra_subnets_per_epoch > Cardinality(Subnets) - Cardinality(state.mandatory_subnets)
    /\ state.extra_subnets = Subnets \ state.mandatory_subnets
    /\ state.extra_subnets # {}

(***************************************************************************)
(* Startup: run_sidecar from the command line to the end of its event loop *)
(***************************************************************************)
StartupNext ==
    \/ \E exists \in BOOLEAN, parsed \in BOOLEAN, file_config \in Configs :
          MainLoad(exists, parsed, file_config)
    \/ \E providerOk \in BOOLEAN : MainStart(providerOk)
    \/ \E providerOk \in BOOLEAN : MainEnableStealth(providerOk)
    \/ MainDisableStealth
    \/ MainShutdown

InitStartup ==
    /\ MainInit /\ calc = CalcNone /\ s_gossip = NoGossip /\ LateIdle
    /\ LimiterIdle /\ JugglerIdle /\ RelayIdle /\ SupervisorIdle /\ shutdown = FALSE
    /\ QueueIdle /\ ReceiveIdle /\ r_messages = {} /\ rl_run = RunStart /\ j_pair = NoPair

StartupFrame ==
    UNCHANGED <<limiterVars, jugglerVars, relayVars, supervisorVars, shutdown,
                queueVars, receiveVars, r_messages, rl_run, j_pair, calc, s_gossip,
                lateVars>>

SpecStartup == InitStartup /\ [][StartupNext /\ StartupFrame]_vars

\* C22: the juggler and the relay are never started with a configuration that
\* validate_config rejects, that is with fewer than 3 friend nodes or with
\* extra_subnets_per_epoch > 32.
C22_StartsOnlyValidConfig ==
    \A t \in m_started :
        /\ validate_config(t.config) = "Ok"
        /\ t.config.friend_nodes >= MIN_FRIEND_NODES
        /\ t.config.extra_subnets_per_epoch <= MAX_EXTRA_SUBNETS

\* C23: once the relay has handled a Stop command it has left its run loop: the
\* step after it handles no RelayAttestation, AddFriend, RemoveFriend or
\* UpdateRln command.
C23_NothingHandledAfterStop ==
    [][r_last.op = "Stop" =>
          r_last'.op \notin {"RelayAttestation", "AddFriend", "RemoveFriend", "UpdateRln"}]_vars

\* C24: the step that handles a Stop command, in the juggler and in the relay,
\* sends no Error event on the task's event channel.
C24_StopSendsNoErrorEvent ==
    /\ j_last.op = "Stop" => ErrorEvent \notin SeqToSet(j_events)
    /\ r_last.op = "Stop" => RelayError \notin SeqToSet(r_events)

(***************************************************************************)
(* Handler errors: each task alone, its handlers failing in every way      *)
(***************************************************************************)
ErrorsJuggler ==
    \/ \E epoch \in Epochs, m \in MandatoryChoices :
          \E new \in Selections([state EXCEPT !.mandatory_subnets = m],
                                 extra_subnets_per_epoch) :
              JugglerInitialize(TRUE, epoch, TRUE, m, new, NoFailure)
    \/ \E in \in ReshuffleInputs : JugglerEpochTick(TRUE, state.current_epoch, in[1], in[2])
    \/ JugglerEpochTick(FALSE, 0, {}, NoFailure)
    \/ \E in \in ReshuffleInputs : JugglerCommand(ForceReshuffleCmd, in[1], in[2], 0)
    \/ \E s \in Subnets, fail \in FailAmong(1) :
          /\ fail = 1 => AddWanted(state, s)
          /\ JugglerCommand(AddSubnetsCmd(<<s>>), {}, NoFailure, fail)
    \/ \E s \in Subnets, fail \in FailAmong(1) :
          /\ fail = 1 => RemoveWanted(state, s)
          /\ JugglerCommand(RemoveSubnetsCmd(<<s>>), {}, NoFailure, fail)

ErrorsRelay ==
    \/ \E rln_epoch \in RelayEpochs, nullifier \in Nullifiers :
          \E delivered \in FanoutResults(rln_epoch, nullifier) :
              RelayCommand(RelayAttestationCmd, TRUE, rln_epoch, TRUE, nullifier, delivered)
    \/ \E rln_epoch \in RelayEpochs :
          RelayCommand(RelayAttestationCmd, TRUE, rln_epoch, FALSE, 0, {})
    \/ RelayCommand(RelayAttestationCmd, FALSE, 0, FALSE, 0, {})

\* The two tasks share no state: either the juggler runs and the relay is
\* idle, or the relay runs and the juggler is idle.
InitErrors == InitJuggler \/ InitEgress

ErrorsNext == (ErrorsJuggler /\ JugglerFrame) \/ (ErrorsRelay /\ RelayFrame)

SpecErrors == InitErrors /\ [][ErrorsNext]_vars

JugglerHandlers == {"EpochTick", "ForceReshuffle", "AddSubnets", "RemoveSubnets"}

\* C25: after a handler of the juggler (epoch tick or command) or of the relay
\* (a relayed attestation) returned an error, the task is still at its loop,
\* the last event it sent is an Error event, and the next tick or command can
\* be handled.
C25_HandlerErrorKeepsLoop ==
    /\ (j_last.op \in JugglerHandlers /\ ~j_last.ok) =>
          /\ j_pc = "running"
          /\ j_events # <<>> /\ j_events[Len(j_events)] = ErrorEvent
          /\ ENABLED JugglerEpochTick(FALSE, 0, {}, NoFailure)
    /\ (r_last.op = "RelayAttestation" /\ ~r_last.ok) =>
          /\ r_pc = "running"
          /\ r_events # <<>> /\ r_events[Len(r_events)] = RelayError
          /\ ENABLED RelayCommand(RelayAttestationCmd, FALSE, 0, FALSE, 0, {})

\* A reshuffle at an epoch tick failed on a subscribe call and the juggler is at
\* its loop.
C25_Witness ==
    /\ j_last = Step("EpochTick", FALSE)
    /\ \E c \in j_calls : c[1] = "subscribe" /\ ~c[3]
    /\ j_pc = "running"

(***************************************************************************)
(* Pure functions of the common crate: SubnetId and EpochInfo              *)
(***************************************************************************)
Panic == [kind |-> "panic", value |-> 0]
Value(v) == [kind |-> "value", value |-> v]

\* Ok(SubnetId(id)) and Err(StealthError::Config(..))
Ok(id) == [kind |-> "Ok", value |-> id]
ConfigError == [kind |-> "Config", value |-> 0]

\* SubnetId::new with the bound itself rejected.
SubnetIdNew_Strict(id) ==
    IF id >= MAX_SUBNET_ID THEN ConfigError ELSE Ok(id)

\* SubnetId::new
SubnetIdNew(id) ==
    IF id > MAX_SUBNET_ID THEN ConfigError ELSE Ok(id)

\* SubnetId::all_subnets: (0..=MAX_SUBNET_ID).map(SubnetId).collect()
all_subnets == [i \in 1..(MAX_SUBNET_ID + 1) |-> i - 1]

Words == 0..MaxWord

EpochInfos == [epoch : {0}, slot : Words, slots_per_epoch : Words, seconds_per_slot : Words]

\* slots_remaining_in_epoch counting the slots elapsed instead.
slots_remaining_in_epoch_Elapsed(info) ==
    IF info.slots_per_epoch = 0 THEN Panic
    ELSE Value(info.slot % info.slots_per_epoch)

\* EpochInfo::slots_remaining_in_epoch: the remainder panics on a zero divisor.
slots_remaining_in_epoch(info) ==
    IF info.slots_per_epoch = 0 THEN Panic
    ELSE Value(info.slots_per_epoch - (info.slot % info.slots_per_epoch))

\* EpochInfo::seconds_until_next_epoch, as the set of its outcomes: a product
\* that overflows u64 panics in a build with overflow checks and wraps in one
\* without.
seconds_until_next_epoch(info) ==
    LET remaining == slots_remaining_in_epoch(info)
        product == remaining.value * info.seconds_per_slot
    IN  IF remaining.kind = "panic" THEN {Panic}
        ELSE IF product > MaxWord THEN {Panic, Value(product % (MaxWord + 1))}
        ELSE {Value(product)}

Called(f, arg, result, list) == [f |-> f, arg |-> arg, result |-> result, list |-> list]

CallSubnetIdNew(id) == calc' = Called("SubnetId::new", <<id>>, SubnetIdNew(id), <<>>)

CallAllSubnets ==
    calc' = Called("SubnetId::all_subnets", <<>>, Value(Len(all_subnets)), all_subnets)

CallSecondsUntilNextEpoch(info) ==
    \E result \in seconds_until_next_epoch(info) :
        calc' = Called("EpochInfo::seconds_until_next_epoch",
                       <<info.slot, info.slots_per_epoch, info.seconds_per_slot>>,
                       result, <<>>)

CalcNext ==
    \/ \E id \in 0..MaxId : CallSubnetIdNew(id)
    \/ CallAllSubnets
    \/ \E info \in EpochInfos : CallSecondsUntilNextEpoch(info)

InitCalc ==
    /\ calc = CalcNone /\ MainIdle /\ s_gossip = NoGossip /\ LateIdle
    /\ LimiterIdle /\ JugglerIdle /\ RelayIdle /\ SupervisorIdle /\ shutdown = FALSE
    /\ QueueIdle /\ ReceiveIdle /\ r_messages = {} /\ rl_run = RunStart /\ j_pair = NoPair

CalcFrame ==
    UNCHANGED <<limiterVars, jugglerVars, relayVars, supervisorVars, shutdown,
                queueVars, receiveVars, r_messages, rl_run, j_pair, mainVars, s_gossip,
                lateVars>>

SpecCalc == InitCalc /\ [][CalcNext /\ CalcFrame]_vars

\* The EpochInfo the last call of seconds_until_next_epoch was made on.
CalledInfo ==
    [epoch |-> 0, slot |-> calc.arg[1], slots_per_epoch |-> calc.arg[2],
     seconds_per_slot |-> calc.arg[3]]

\* C26: SubnetId::new(id) is Ok, holding id, exactly for the ids up to
\* MAX_SUBNET_ID and a Config error for every larger u8; all_subnets() holds
\* every id in 0..=MAX_SUBNET_ID exactly once and nothing else.
C26_SubnetIdRange ==
    /\ calc.f = "SubnetId::new" =>
          /\ calc.result.kind \in {"Ok", "Config"}
          /\ calc.result.kind = "Ok" <=> calc.arg[1] <= MAX_SUBNET_ID
          /\ calc.result.kind = "Ok" => calc.result.value = calc.arg[1]
    /\ calc.f = "SubnetId::all_subnets" =>
          /\ Len(calc.list) = MAX_SUBNET_ID + 1
          /\ \A id \in 0..MAX_SUBNET_ID :
                Cardinality({i \in 1..Len(calc.list) : calc.list[i] = id}) = 1

\* SubnetId::new was called with the first id past the bound and refused it.
C26_Witness ==
    /\ calc.f = "SubnetId::new"
    /\ calc.arg[1] = MAX_SUBNET_ID + 1
    /\ calc.result.kind = "Config"

\* C27 as stated: for every EpochInfo with slots_per_epoch >= 1 the call returns
\* (slots_per_epoch - slot mod slots_per_epoch) * seconds_per_slot, a value in
\* [seconds_per_slot, slots_per_epoch * seconds_per_slot] that is a full epoch
\* and not 0 when slot is on an epoch boundary.
C27_SecondsUntilNextEpoch ==
    (calc.f = "EpochInfo::seconds_until_next_epoch" /\ CalledInfo.slots_per_epoch >= 1) =>
        LET info == CalledInfo
            expected == (info.slots_per_epoch - (info.slot % info.slots_per_epoch))
                            * info.seconds_per_slot
        IN  /\ calc.result = Value(expected)
            /\ calc.result.value >= info.seconds_per_slot
            /\ calc.result.value <= info.slots_per_epoch * info.seconds_per_slot
            /\ info.slot % info.slots_per_epoch = 0 =>
                  /\ calc.result.value = info.slots_per_epoch * info.seconds_per_slot
                  /\ calc.result.value # 0

\* C27 amended: the same for every EpochInfo with slots_per_epoch >= 1 whose
\* product of remaining slots and seconds_per_slot fits the word, the value
\* on an epoch boundary being nonzero when seconds_per_slot >= 1.
C27_SecondsUntilNextEpochInRange ==
    (/\ calc.f = "EpochInfo::seconds_until_next_epoch"
     /\ CalledInfo.slots_per_epoch >= 1
     /\ (CalledInfo.slots_per_epoch - (CalledInfo.slot % CalledInfo.slots_per_epoch))
            * CalledInfo.seconds_per_slot <= MaxWord) =>
        LET info == CalledInfo
            expected == (info.slots_per_epoch - (info.slot % info.slots_per_epoch))
                            * info.seconds_per_slot
        IN  /\ calc.result = Value(expected)
            /\ calc.result.value >= info.seconds_per_slot
            /\ calc.result.value <= info.slots_per_epoch * info.seconds_per_slot
            /\ info.slot % info.slots_per_epoch = 0 =>
                  /\ calc.result.value = info.slots_per_epoch * info.seconds_per_slot
                  /\ info.seconds_per_slot >= 1 => calc.result.value # 0

\* The call on an epoch boundary past the first epoch returned a full epoch.
C27_Witness ==
    /\ calc.f = "EpochInfo::seconds_until_next_epoch"
    /\ CalledInfo.slots_per_epoch >= 2
    /\ CalledInfo.seconds_per_slot >= 2
    /\ CalledInfo.slot = CalledInfo.slots_per_epoch
    /\ calc.result = Value(CalledInfo.slots_per_epoch * CalledInfo.seconds_per_slot)

(***************************************************************************)
(* Gossip: the supervisor handing intercepted messages to the relay        *)
(***************************************************************************)
\* The supervisor's gossip branch, with the message it handled and whether the
\* relay task was still running.
GossipReceived(message) ==
    /\ SupervisorGossip(message)
    /\ s_gossip' = [message |-> message, relay_open |-> r_pc = "running"]
    /\ UNCHANGED <<rate_limiter, relayVars>>

GossipNext ==
    \/ \E ok \in BOOLEAN :
          SupervisorStart(ok) /\ UNCHANGED <<rate_limiter, relayVars, s_gossip>>
    \/ \E message \in GossipMessages : GossipReceived(message)
    \/ SupervisorShutdown /\ UNCHANGED <<rate_limiter, relayVars, s_gossip>>
    \/ RelayShutdown /\ UNCHANGED <<rate_limiter, supervisorVars, s_gossip>>
    \/ SetShutdown /\ UNCHANGED <<rate_limiter, relayVars, supervisorVars, s_gossip>>

InitGossip ==
    /\ SupervisorInit /\ RelayInit /\ LimiterHistoryIdle /\ JugglerIdle
    /\ QueueIdle /\ ReceiveIdle /\ r_messages = {} /\ rl_run = RunStart /\ j_pair = NoPair
    /\ AuxIdle /\ shutdown = FALSE

GossipFrame ==
    UNCHANGED <<limiterHistory, jugglerVars, queueVars, receiveVars, r_messages, rl_run,
                j_pair, mainVars, calc, lateVars>>

SpecGossip == InitGossip /\ [][GossipNext /\ GossipFrame]_vars

\* C28 as stated: after the supervisor handled a gossip message, what it sent
\* to the relay is exactly one RelayAttestation command with the message's data
\* and subnet_id when the message is an Attestation, and nothing when it is a
\* Block or an Other message.
C28_AttestationEnqueuesOne ==
    s_last.op = "Gossip" =>
        IF s_gossip.message.kind = "Attestation"
        THEN s_sent = <<RelayAttestationOf(s_gossip.message.data, s_gossip.message.subnet_id)>>
        ELSE s_sent = <<>>

\* C28 amended: the same while the relay task is running; an Attestation
\* handled after the relay task ended sends nothing.
C28_AttestationEnqueuesOneWhileRelayRuns ==
    s_last.op = "Gossip" =>
        IF s_gossip.message.kind = "Attestation" /\ s_gossip.relay_open
        THEN s_sent = <<RelayAttestationOf(s_gossip.message.data, s_gossip.message.subnet_id)>>
        ELSE s_sent = <<>>

\* An attestation for a subnet other than 0 was handed to the running relay.
C28_Witness ==
    /\ s_last.op = "Gossip"
    /\ s_gossip.message.kind = "Attestation"
    /\ s_gossip.message.subnet_id # 0
    /\ s_gossip.message.data = 2
    /\ s_gossip.relay_open
    /\ Len(s_sent) = 1

\* C29: after a reshuffle (at an epoch tick or for ForceReshuffle) in which a
\* subscribe call failed, every selected subnet was attempted, an Error event
\* was sent, the subnets that did subscribe are still subscribed, and
\* state.extra_subnets is exactly the set of subnets that did subscribe.
C29_SubscribeFailureContinues ==
    (/\ j_last.op \in {"EpochTick", "ForceReshuffle"}
     /\ \E c \in j_calls : c[1] = "subscribe" /\ ~c[3]) =>
        LET attempted  == {c[2] : c \in {d \in j_calls : d[1] = "subscribe"}}
            subscribed == {c[2] : c \in {d \in j_calls : d[1] = "subscribe" /\ d[3]}}
        IN  /\ Cardinality(attempted) =
                  Min(extra_subnets_per_epoch,
                      Cardinality(Subnets) - Cardinality(state.mandatory_subnets))
            /\ ErrorEvent \in SeqToSet(j_events)
            /\ subscribed \subseteq provider_subscribed
            /\ state.extra_subnets = subscribed

\* C30: an epoch tick at which the provider reports the epoch the juggler is
\* already in makes no subscribe or unsubscribe call, leaves
\* state.extra_subnets as it was and sends no event.
C30_SameEpochTickSkipsReshuffle ==
    [][(/\ j_pc = "running"
        /\ shutdown' = shutdown
        /\ j_last' = Step("EpochTick", TRUE)
        /\ state'.current_epoch = state.current_epoch) =>
           /\ j_calls' = {}
           /\ state'.extra_subnets = state.extra_subnets
           /\ j_events' = <<>>]_vars

(***************************************************************************)
(* Mandatory subnets: the juggler and a provider whose report changes      *)
(***************************************************************************)
\* The provider starts to report another set of validator subnets.
ProviderMandatoryChanges ==
    /\ validator_subnets' \in MandatoryChoices \ {validator_subnets}
    /\ UNCHANGED <<jugglerVars, shutdown>>

MandatoryNext ==
    \/ \E epoch \in Epochs :
          \E new \in Selections([state EXCEPT !.mandatory_subnets = validator_subnets],
                                 extra_subnets_per_epoch) :
              /\ JugglerInitialize(TRUE, epoch, TRUE, validator_subnets, new, NoFailure)
              /\ UNCHANGED validator_subnets
    \/ \E epoch \in Epochs, in \in ReshuffleInputs :
          /\ JugglerEpochTick(TRUE, epoch, in[1], in[2])
          /\ UNCHANGED validator_subnets
    \/ ProviderMandatoryChanges

InitMandatory ==
    /\ JugglerInit /\ LimiterIdle /\ RelayIdle /\ SupervisorIdle /\ shutdown = FALSE
    /\ QueueIdle /\ ReceiveIdle /\ r_messages = {} /\ rl_run = RunStart /\ j_pair = NoPair
    /\ MainIdle /\ calc = CalcNone /\ s_gossip = NoGossip
    /\ validator_subnets \in MandatoryChoices
    /\ j_timer = TimerNone /\ j_inflight = InflightNone /\ LastIdle

MandatoryFrame ==
    UNCHANGED <<limiterVars, relayVars, supervisorVars, queueVars, receiveVars,
                r_messages, rl_run, j_pair, mainVars, calc, s_gossip, j_timer, j_inflight,
                lastVars>>

SpecMandatory == InitMandatory /\ [][MandatoryNext /\ MandatoryFrame]_vars

\* C31: an epoch tick handled without error leaves state.mandatory_subnets equal
\* to the set the provider reports at the tick, and the extras it drew exclude
\* that set.
C31_TickSyncsMandatory ==
    [][(/\ j_pc = "running"
        /\ j_last' = Step("EpochTick", TRUE)
        /\ validator_subnets' = validator_subnets) =>
           /\ state'.mandatory_subnets = validator_subnets'
           /\ state'.extra_subnets \cap validator_subnets' = {}]_vars

(***************************************************************************)
(* The juggler's epoch timer                                               *)
(***************************************************************************)
\* The EpochInfo the provider reports at time t: one slot per unit of time.
EpochInfoAt(t) ==
    [epoch |-> t \div SlotsPerEpoch, slot |-> t, slots_per_epoch |-> SlotsPerEpoch,
     seconds_per_slot |-> 1]

\* epoch_info.seconds_until_next_epoch() at time t
SecondsUntilNextEpochAt(t) == (CHOOSE r \in seconds_until_next_epoch(EpochInfoAt(t)) : TRUE).value

\* epoch_timer.tick() completed at time t: a tokio interval fires again one
\* period after the tick that was due; handle_epoch_boundary stores
\* next_reshuffle in the state and leaves the timer alone.
TimerAfterTick(timer, t) ==
    [timer EXCEPT !.next = @ + timer.period, !.at = t, !.until = SecondsUntilNextEpochAt(t)]

\* run: interval(Duration::from_secs(next_reshuffle - now)) after initialize; the
\* first tick of a tokio interval completes immediately.
TimerCreated(t) ==
    [armed |-> TRUE, period |-> SecondsUntilNextEpochAt(t), next |-> t, init_at |-> t,
     at |-> t, until |-> SecondsUntilNextEpochAt(t)]

\* run up to the loop: initialize, then the timer is created.
TimerInitialize ==
    /\ \E m \in MandatoryChoices :
          \E new \in Selections([state EXCEPT !.mandatory_subnets = m],
                                 extra_subnets_per_epoch) :
              JugglerInitialize(TRUE, EpochInfoAt(now).epoch, TRUE, m, new, NoFailure)
    /\ j_timer' = TimerCreated(now)
    /\ UNCHANGED now

\* run: the epoch_timer.tick() branch, taken when the tick is due.
TimerTick ==
    /\ j_timer.armed /\ now >= j_timer.next
    /\ \E in \in ReshuffleInputs :
          JugglerEpochTick(TRUE, EpochInfoAt(now).epoch, in[1], in[2])
    /\ j_timer' = TimerAfterTick(j_timer, now)
    /\ UNCHANGED now

\* Time passes while no tick is due.
TimerClock ==
    /\ now < MaxTime
    /\ j_timer.armed => now < j_timer.next
    /\ now' = now + 1
    /\ UNCHANGED <<jugglerVars, shutdown, j_timer>>

TimerNext == TimerInitialize \/ TimerTick \/ TimerClock

InitTimer ==
    /\ JugglerInit /\ LimiterIdle /\ RelayIdle /\ SupervisorIdle /\ shutdown = FALSE
    /\ message_queue = MessageQueueNew(0) /\ mq_last = QueueCall("none", 0, FALSE, 0)
    /\ mq_live = <<>>
    /\ now \in 0..(SlotsPerEpoch - 1)
    /\ ReceiveIdle /\ r_messages = {} /\ rl_run = RunStart /\ j_pair = NoPair
    /\ MainIdle /\ calc = CalcNone /\ s_gossip = NoGossip
    /\ LateIdle

TimerFrame ==
    UNCHANGED <<limiterVars, relayVars, supervisorVars, message_queue, mq_last, mq_live,
                receiveVars, r_messages, rl_run, j_pair, mainVars, calc, s_gossip,
                validator_subnets, j_inflight, lastVars>>

SpecTimer == InitTimer /\ [][TimerNext /\ TimerFrame]_vars

\* C32: after an epoch tick the delay from the tick to the timer's next tick is
\* the seconds_until_next_epoch of the EpochInfo queried at the tick, and the
\* tick did not come at the instant initialize finished.
C32_TimerRearmedToBoundary ==
    j_last = Step("EpochTick", TRUE) =>
        /\ j_timer.next - j_timer.at = j_timer.until
        /\ j_timer.at > j_timer.init_at

(***************************************************************************)
(* The juggler's handlers at their await points                            *)
(***************************************************************************)
\* n times the call c
Repeat(c, n) == [i \in 1..n |-> c]

\* The provider calls a reshuffle awaits, in order: one unsubscribe per old
\* extra, then one subscribe per selected subnet.
ReshuffleCalls ==
    {Repeat("unsubscribe", a) \o Repeat("subscribe", b) : a \in 0..MaxExtra, b \in 0..MaxExtra}

\* The provider calls each handler of the run loop awaits, in order.
HandlerCalls(handler) ==
    CASE handler = "EpochTick" -> {<<"get_current_epoch_info">> \o c : c \in ReshuffleCalls}
      [] handler = "ForceReshuffle" -> ReshuffleCalls
      [] handler = "AddSubnets" -> {Repeat("subscribe", n) : n \in 0..MaxCmdLen}
      [] handler = "RemoveSubnets" -> {Repeat("unsubscribe", n) : n \in 0..MaxCmdLen}

\* A run loop that spawns each handler instead of awaiting it.
SelectPolled_Spawning(running) == TRUE

\* run: select! is polled at the head of the loop only, and the branch taken
\* awaits its handler (which borrows self mutably) before the loop comes round.
SelectPolled(running) == running = <<>>

\* run: the timer or command branch of select! is taken and its handler starts.
AwaitTake(handler, calls) ==
    /\ SelectPolled(j_inflight.running)
    /\ Len(j_inflight.running) < MaxInflight
    /\ j_inflight' = [j_inflight EXCEPT
                        !.running = Append(@, [handler |-> handler, calls |-> calls, done |-> 0])]

\* The provider call handler i waits for completes; a failed call makes the
\* handler return its error through `?`.
AwaitCall(i, ok) ==
    /\ i \in 1..Len(j_inflight.running)
    /\ LET h == j_inflight.running[i]
       IN  /\ h.calls # <<>>
           /\ j_inflight' =
                 IF ok
                 THEN [j_inflight EXCEPT !.running[i] =
                          [h EXCEPT !.calls = Tail(@), !.done = @ + 1]]
                 ELSE [running |-> [k \in 1..(Len(j_inflight.running) - 1) |->
                                       j_inflight.running[IF k < i THEN k ELSE k + 1]],
                       finished |-> [handler |-> h.handler, ok |-> FALSE, calls |-> h.done]]

\* Handler i has no call left and returns Ok.
AwaitReturn(i) ==
    /\ i \in 1..Len(j_inflight.running)
    /\ LET h == j_inflight.running[i]
       IN  /\ h.calls = <<>>
           /\ j_inflight' =
                 [running |-> [k \in 1..(Len(j_inflight.running) - 1) |->
                                  j_inflight.running[IF k < i THEN k ELSE k + 1]],
                  finished |-> [handler |-> h.handler, ok |-> TRUE, calls |-> h.done]]

AwaitNext ==
    \/ \E handler \in JugglerHandlers : \E calls \in HandlerCalls(handler) :
          AwaitTake(handler, calls)
    \/ \E i \in 1..MaxInflight, ok \in BOOLEAN : AwaitCall(i, ok)
    \/ \E i \in 1..MaxInflight : AwaitReturn(i)

InitAwait ==
    /\ LimiterIdle /\ JugglerIdle /\ RelayIdle /\ SupervisorIdle /\ shutdown = FALSE
    /\ QueueIdle /\ ReceiveIdle /\ r_messages = {} /\ rl_run = RunStart /\ j_pair = NoPair
    /\ MainIdle /\ calc = CalcNone /\ s_gossip = NoGossip
    /\ LateIdle

AwaitFrame ==
    UNCHANGED <<limiterVars, jugglerVars, relayVars, supervisorVars, shutdown, queueVars,
                receiveVars, r_messages, rl_run, j_pair, mainVars, calc, s_gossip,
                validator_subnets, j_timer, lastVars>>

SpecAwait == InitAwait /\ [][AwaitNext /\ AwaitFrame]_vars

\* C33: at most one handler of the juggler (epoch-tick reshuffle, ForceReshuffle,
\* AddSubnets, RemoveSubnets) is in progress at any time: none is started while
\* another waits for a provider call.
C33_HandlersDoNotOverlap == Len(j_inflight.running) <= 1

\* A reshuffle at an epoch tick waits for a provider call, one unsubscribe done
\* and a subscribe still to come.
C33_Witness ==
    /\ Len(j_inflight.running) = 1
    /\ j_inflight.running[1].handler = "EpochTick"
    /\ j_inflight.running[1].done >= 2
    /\ j_inflight.running[1].calls # <<>>
    /\ j_inflight.running[1].calls[1] = "subscribe"

(***************************************************************************)
(* The rate limiter's buckets over consecutive epochs                      *)
(***************************************************************************)
\* Every epoch from the start to the first one whose arrival evicts epoch 0.
BucketEpochs == 0..(KEEP_EPOCHS + 1)

\* A limiter with the largest rate limit, called with one nullifier per epoch.
InitBuckets ==
    /\ InitLimiter
    /\ rate_limiter = RateLimiterNew(MaxLimit)
    /\ rl_watch = <<0, 1>>

BucketsNext ==
    \E epoch \in BucketEpochs :
        /\ CheckAndUpdate(epoch, 1)
        /\ UNCHANGED <<jugglerVars, relayVars, supervisorVars, shutdown, restVars>>

SpecBuckets == InitBuckets /\ [][BucketsNext]_vars

\* C34: the epoch-to-nullifiers map of the rate limiter holds no bucket for an
\* epoch older than current_epoch - 3 and never more than 3 buckets.
C34_AtMostThreeBuckets ==
    /\ \A e \in DOMAIN rate_limiter.nullifiers_seen :
          e >= saturating_sub(rate_limiter.current_epoch, KEEP_EPOCHS)
    /\ Cardinality(DOMAIN rate_limiter.nullifiers_seen) <= KEEP_EPOCHS

(***************************************************************************)
(* The juggler's events forwarded by the supervisor to the gossip engine     *)
(***************************************************************************)
\* The subnets an event lists (an Error event lists none).
ListedSubnets(event) == IF "subnets" \in DOMAIN event THEN event.subnets ELSE <<>>

\* run: subnet_juggler_handle.recv_event() yields the event, and
\* handle_subnet_event takes it; failing is the set of listed subnets whose
\* gossip-engine call fails.
SubnetEventReceived(event, failing) ==
    /\ SupervisorSubnetEvent(event, failing)
    /\ s_event' = [type |-> event.type, subnets |-> ListedSubnets(event),
                   failing |-> failing]

\* The event received is one the juggler's last handler sent.
ForwardSubnetEvent(i, failing) ==
    /\ i \in 1..Len(j_events)
    /\ SubnetEventReceived(j_events[i], failing)

\* The juggler up to its events: a successful initialize, then commands.
ForwardJuggler ==
    \/ \E m \in MandatoryChoices :
          \E new \in Selections([state EXCEPT !.mandatory_subnets = m],
                                 extra_subnets_per_epoch) :
              JugglerInitialize(TRUE, 0, TRUE, m, new, NoFailure)
    \/ \E new \in Selections(state, extra_subnets_per_epoch) :
          JugglerCommand(ForceReshuffleCmd, new, NoFailure, 0)
    \/ \E list \in SubnetLists :
          \E fail \in FailAmong(Cardinality(SeqToSet(list) \ state.subscribed_subnets)) :
              JugglerCommand(AddSubnetsCmd(list), {}, NoFailure, fail)
    \/ \E list \in SubnetLists :
          \E fail \in FailAmong(Cardinality(SeqToSet(list) \cap state.extra_subnets)) :
              JugglerCommand(RemoveSubnetsCmd(list), {}, NoFailure, fail)

ForwardNext ==
    \/ ForwardJuggler /\ UNCHANGED <<supervisorVars, s_event>>
    \/ \E ok \in BOOLEAN : SupervisorStart(ok) /\ UNCHANGED <<jugglerVars, s_event>>
    \/ \E i \in 1..Len(j_events) :
          \E failing \in SUBSET SeqToSet(ListedSubnets(j_events[i])) :
              ForwardSubnetEvent(i, failing) /\ UNCHANGED jugglerVars

InitForward ==
    /\ JugglerInit /\ SupervisorInit /\ LimiterIdle /\ RelayIdle /\ shutdown = FALSE
    /\ QueueIdle /\ ReceiveIdle /\ r_messages = {} /\ rl_run = RunStart /\ j_pair = NoPair
    /\ MainIdle /\ calc = CalcNone /\ s_gossip = NoGossip
    /\ validator_subnets = {} /\ j_timer = TimerNone /\ j_inflight = InflightNone
    /\ LastIdle

ForwardFrame ==
    UNCHANGED <<limiterVars, relayVars, queueVars, receiveVars, r_messages, rl_run,
                j_pair, mainVars, calc, s_gossip, validator_subnets, j_timer, j_inflight,
                m_tasks>>

SpecForward == InitForward /\ [][ForwardNext /\ ForwardFrame]_vars

\* The supervisor alone, receiving the events a juggler can send.
MaxEventLen == 2

\* Vec<SubnetId> of an event: any list, repeated entries included.
EventLists == UNION {[1..n -> Subnets] : n \in 0..MaxEventLen}

SubnetEvents ==
    {SubnetsJoined(list) : list \in EventLists}
        \cup {SubnetsLeft(list) : list \in EventLists}
        \cup {EpochReshuffle(epoch, list) : epoch \in Epochs, list \in EventLists}
        \cup {ErrorEvent}

EventsNext ==
    \/ \E ok \in BOOLEAN : SupervisorStart(ok) /\ UNCHANGED s_event
    \/ \E event \in SubnetEvents :
          \E failing \in SUBSET SeqToSet(ListedSubnets(event)) :
              SubnetEventReceived(event, failing)

InitEvents ==
    /\ JugglerIdle /\ SupervisorInit /\ LimiterIdle /\ RelayIdle /\ shutdown = FALSE
    /\ QueueIdle /\ ReceiveIdle /\ r_messages = {} /\ rl_run = RunStart /\ j_pair = NoPair
    /\ MainIdle /\ calc = CalcNone /\ s_gossip = NoGossip
    /\ validator_subnets = {} /\ j_timer = TimerNone /\ j_inflight = InflightNone
    /\ LastIdle

EventsFrame == ForwardFrame /\ UNCHANGED jugglerVars

SpecEvents == InitEvents /\ [][EventsNext /\ EventsFrame]_vars

\* The gossip-engine call the supervisor makes for an event of the type.
EngineCall(type) == IF type = "SubnetsJoined" THEN "subscribe" ELSE "unsubscribe"

\* C35: after the supervisor handled a SubnetsJoined(list) event it made one
\* subscribe call per entry of list, in order, and after a SubnetsLeft(list)
\* event one unsubscribe call per entry; the calls after a failing one are
\* made all the same.
C35_OneCallPerListedSubnet ==
    (s_last.op = "SubnetEvent" /\ s_event.type \in {"SubnetsJoined", "SubnetsLeft"}) =>
        /\ Len(s_calls) = Len(s_event.subnets)
        /\ \A i \in 1..Len(s_calls) :
              /\ s_calls[i][1] = EngineCall(s_event.type)
              /\ s_calls[i][2] = s_event.subnets[i]
              /\ s_calls[i][3] = (s_event.subnets[i] \notin s_event.failing)

\* C35 witness: the supervisor handled an event listing two subnets, the call
\* for the first failed and the call for the second was made and succeeded.
C35_Witness ==
    /\ s_last.op = "SubnetEvent"
    /\ s_event.type \in {"SubnetsJoined", "SubnetsLeft"}
    /\ Len(s_event.subnets) >= 2
    /\ s_event.subnets[1] \in s_event.failing
    /\ Len(s_calls) >= 2
    /\ s_calls[1][3] = FALSE
    /\ s_calls[2][3] = TRUE

\* The subnets of the provider calls of the kind that the juggler's last
\* handler made and that succeeded.
Succeeded(call) == {c[2] : c \in {d \in j_calls : d[1] = call /\ d[3]}}

\* C36 as stated: the SubnetsLeft event of a command or reshuffle lists
\* exactly the subnets the juggler unsubscribed while handling it, and the
\* SubnetsJoined event exactly those it subscribed; and no unsubscribe call
\* of the supervisor names a mandatory subnet.
C36_EventsListActualChanges ==
    /\ j_last.op \in JugglerHandlers =>
          \A i \in 1..Len(j_events) :
              /\ j_events[i].type = "SubnetsLeft" =>
                    SeqToSet(j_events[i].subnets) = Succeeded("unsubscribe")
              /\ j_events[i].type = "SubnetsJoined" =>
                    SeqToSet(j_events[i].subnets) = Succeeded("subscribe")
    /\ (s_last.op = "SubnetEvent" /\ s_event.type = "SubnetsLeft") =>
          \A i \in 1..Len(s_calls) : s_calls[i][2] \notin state.mandatory_subnets

(***************************************************************************)
(* Rejected calls of the rate limiter                                      *)
(***************************************************************************)
\* How often the nullifier is recorded in the bucket of the epoch.
Recorded(rl, epoch, nullifier) ==
    IF epoch \in DOMAIN rl.nullifiers_seen
    THEN Cardinality({i \in 1..Len(rl.nullifiers_seen[epoch]) :
                         rl.nullifiers_seen[epoch][i] = nullifier})
    ELSE 0

\* C37: a check_and_update call that returns Err leaves message_count as it
\* was (or at 0 when the call advanced the epoch) and records its nullifier
\* in no bucket: no bucket holds the nullifier more often than before the call.
C37_RejectedCallLeavesNoTrace ==
    [][rl_last'.result \in {"ErrNullifier", "ErrRateLimit"} =>
          /\ rate_limiter'.message_count =
                IF rl_last'.epoch > rate_limiter.current_epoch
                THEN 0 ELSE rate_limiter.message_count
          /\ \A e \in DOMAIN rate_limiter'.nullifiers_seen :
                Recorded(rate_limiter', e, rl_last'.nullifier)
                    <= Recorded(rate_limiter, e, rl_last'.nullifier)]_vars

\* C37 witness: a call was rejected for the rate limit with the budget of the
\* epoch used up, and its nullifier is in no bucket.
C37_Witness ==
    /\ rl_last.result = "ErrRateLimit"
    /\ rate_limiter.rate_limit_per_epoch > 0
    /\ rate_limiter.message_count = rate_limiter.rate_limit_per_epoch
    /\ \A e \in DOMAIN rate_limiter.nullifiers_seen :
          Recorded(rate_limiter, e, rl_last.nullifier) = 0

(***************************************************************************)
(* The RateLimitExceeded event of a rejected relay                         *)
(***************************************************************************)
\* handle_command(RelayAttestation) with the provider answering both calls:
\* relay_attestation reaches check_and_update(rln_epoch, nullifier), and the
\* call is kept in the limiter's history.
RelayAttestationChecked(rln_epoch, nullifier, delivered) ==
    /\ RelayCommand(RelayAttestationCmd, TRUE, rln_epoch, TRUE, nullifier, delivered)
    /\ LimiterHistory(rate_limiter, rln_epoch, nullifier,
                      check_and_update(rate_limiter, rln_epoch, nullifier).result)

ExceededNext ==
    \/ \E rln_epoch \in RelayEpochs, nullifier \in Nullifiers :
          \E delivered \in FanoutResults(rln_epoch, nullifier) :
              RelayAttestationChecked(rln_epoch, nullifier, delivered)
    \/ \E rln_epoch \in RelayEpochs :
          /\ RelayCommand(RelayAttestationCmd, TRUE, rln_epoch, FALSE, 0, {})
          /\ UNCHANGED limiterHistory

ExceededFrame == UNCHANGED <<jugglerVars, supervisorVars, restVars>>

SpecExceeded == InitRelay /\ [][ExceededNext /\ ExceededFrame]_vars

\* C38 as stated: a RateLimitExceeded{epoch, attempts, limit} event the relay
\* sent for a rejected message has attempts >= limit, and its epoch is the
\* RLN epoch of the rejected message.
C38_ExceededReportsRejectedMessage ==
    (r_last.op = "RelayAttestation" /\ r_events # <<>>
        /\ r_events[1].type = "RateLimitExceeded") =>
        /\ r_events[1].attempts >= r_events[1].limit
        /\ r_events[1].epoch = rl_last.epoch

(***************************************************************************)
(* stealth_enabled and the handles of the main binary's sidecar            *)
(***************************************************************************)
\* C39 as stated: while the sidecar of the main binary serves commands,
\* stealth_enabled = true implies that the juggler handle and the relay
\* handle are present; an enable_stealth that failed left stealth_enabled
\* false.
C39_EnabledImpliesHandles == (m_pc = "loop" /\ stealth_enabled) => m_handles

(***************************************************************************)
(* The tasks the main binary's sidecar spawns and stops                    *)
(***************************************************************************)
\* enable_stealth calls that spawn are followed up to this many times.
MaxSpawns == 2

\* A task tokio::spawn started: SubnetJuggler::run begins with initialize,
\* FriendRelay::run with its loop; inbox counts the Stop commands queued on
\* the task's command channel, last is the branch its loop took last.
Spawned(task) ==
    [task |-> task, pc |-> IF task = "SubnetJuggler" THEN "created" ELSE "running",
     inbox |-> 0, last |-> "None"]

\* The task has not returned from run.
Live(t) == t.pc \in {"created", "running"}

\* The tasks as an enable_stealth with outcome r leaves them: when it switched
\* stealth on and returned Ok it spawned a juggler and a relay.
AfterEnable(tasks, enabled, r) ==
    IF ~enabled /\ r.stealth_enabled /\ r.ok
    THEN tasks \o <<Spawned("SubnetJuggler"), Spawned("FriendRelay")>>
    ELSE tasks

\* The tasks as a disable_stealth leaves them: handle.send_command(Stop) on
\* the two handles the sidecar holds, those of the tasks spawned last, queues
\* a Stop for a task that still has its receiver; the handles are then dropped.
AfterDisable(tasks, enabled, handles) ==
    IF enabled /\ handles
    THEN [i \in 1..Len(tasks) |->
            IF i > Len(tasks) - 2 /\ Live(tasks[i])
            THEN [tasks[i] EXCEPT !.inbox = @ + 1]
            ELSE tasks[i]]
    ELSE tasks

SpawnStart(providerOk) ==
    /\ MainStart(providerOk)
    /\ m_tasks' = IF m_args.stealth
                  THEN AfterEnable(m_tasks, stealth_enabled,
                                   enable_stealth(stealth_enabled, m_handles, m_started,
                                                  m_config, providerOk))
                  ELSE m_tasks

SpawnEnableStealth(providerOk) ==
    /\ Len(m_tasks) < 2 * MaxSpawns
    /\ MainEnableStealth(providerOk)
    /\ m_tasks' = AfterEnable(m_tasks, stealth_enabled,
                              enable_stealth(stealth_enabled, m_handles, m_started,
                                             m_config, providerOk))

SpawnDisableStealth ==
    /\ MainDisableStealth
    /\ m_tasks' = AfterDisable(m_tasks, stealth_enabled, m_handles)

SpawnShutdown ==
    /\ MainShutdown
    /\ m_tasks' = AfterDisable(m_tasks, stealth_enabled, m_handles)

\* SubnetJuggler::run: self.initialize().await? before the loop.
TaskInitialize(i, ok) ==
    /\ i \in 1..Len(m_tasks)
    /\ m_tasks[i].pc = "created"
    /\ m_tasks' = [m_tasks EXCEPT ![i].pc = IF ok THEN "running" ELSE "failed",
                                  ![i].last = "Initialize"]
    /\ UNCHANGED mainVars

\* The command branch of a task's select loop takes a queued Stop:
\* handle_command returns Err, the loop sends an Error event and goes on.
\* The shutdown branch never ends the loop: enable_stealth dropped the watch
\* sender without sending true, so borrow() stays false.
TaskStop(i) ==
    /\ i \in 1..Len(m_tasks)
    /\ m_tasks[i].pc = "running"
    /\ m_tasks[i].inbox > 0
    /\ ~ShutdownObserved(FALSE)
    /\ m_tasks' = [m_tasks EXCEPT ![i].inbox = @ - 1, ![i].last = "Stop"]
    /\ UNCHANGED mainVars

\* The timer branch of a task's select loop: an epoch tick of the juggler, a
\* statistics tick of the relay.
TaskTick(i) ==
    /\ i \in 1..Len(m_tasks)
    /\ m_tasks[i].pc = "running"
    /\ m_tasks' = [m_tasks EXCEPT ![i].last = "Tick"]
    /\ UNCHANGED mainVars

SpawnNext ==
    \/ \E exists \in BOOLEAN : MainLoad(exists, ~exists, StealthConfigDefault) /\ UNCHANGED m_tasks
    \/ \E providerOk \in BOOLEAN : SpawnStart(providerOk)
    \/ \E providerOk \in BOOLEAN : SpawnEnableStealth(providerOk)
    \/ SpawnDisableStealth
    \/ SpawnShutdown
    \/ \E i \in 1..Len(m_tasks), ok \in BOOLEAN : TaskInitialize(i, ok)
    \/ \E i \in 1..Len(m_tasks) : TaskStop(i)
    \/ \E i \in 1..Len(m_tasks) : TaskTick(i)

SpawnFrame ==
    UNCHANGED <<limiterVars, jugglerVars, relayVars, supervisorVars, shutdown,
                queueVars, receiveVars, r_messages, rl_run, j_pair, calc, s_gossip,
                validator_subnets, j_timer, j_inflight, s_event>>

SpecSpawn == InitStartup /\ [][SpawnNext /\ SpawnFrame]_vars

\* The tasks of the kind that have not returned from run and have no Stop
\* left to take from their command channel.
LiveTasks(task) ==
    {i \in 1..Len(m_tasks) :
        m_tasks[i].task = task /\ Live(m_tasks[i]) /\ m_tasks[i].inbox = 0}

\* C40 as stated: whatever enable_stealth and disable_stealth commands were
\* handled, at most one juggler task and at most one relay task spawned by the
\* sidecar is live; a task that has a Stop still queued is not counted, so
\* only a task that outlives its Stop breaks the property.
C40_AtMostOneLiveTask ==
    /\ Cardinality(LiveTasks("SubnetJuggler")) <= 1
    /\ Cardinality(LiveTasks("FriendRelay")) <= 1

====
